---- MODULE Spec2Model ----
(***************************************************************************)
(* Model of the error-driven patch engine of Kirogeist: fixer.py (the     *)
(* Declarator, the Rule Engine, the generative fallback and the Patch      *)
(* Applier fix_selected) and the legacy Fixer of agents.py.                *)
(*                                                                         *)
(* Source text is a sequence of lexemes.  A lexeme <<kind, a, b>> stands   *)
(* for one fixed string of PHP text (see Render below in the comments);    *)
(* offsets are counted in lexemes.  The strings are chosen so that no      *)
(* regular expression of the source matches across a lexeme boundary      *)
(* other than as the operators below say:                                  *)
(*   <<"cls",  "", n>>   class n                                           *)
(*   <<"lb",   "", "">>  {            <<"rb", "", "">>  }                  *)
(*   <<"nl",   "", "">>  \n           <<"ws", w, "">>   blanks, tab or \r  *)
(*   <<"decl", v, n>>    v $n;        (v: var public protected private)    *)
(*   <<"this", "", n>>   $this->n;    <<"call", "", n>> $this->n();        *)
(*   <<"fn",   "", "">>  function f() <<"doc", "", "">> /** d */           *)
(*   <<"lc",   "", "">>  //           <<"bo", "", "">>  /*                 *)
(*   <<"bc",   "", "">>  */           <<"sq", "", "">>  '                  *)
(*   <<"dq",   "", "">>  "            <<"bs", "", "">>  \                  *)
(*   <<"here", "", t>>   <<<t         <<"tag", "", t>>  t;                 *)
(*   <<"code", "", c>>   c();         <<"acc", "", k>>  $_GET['k']         *)
(*   <<"coal", "", k>>   ($_GET['k'] ?? null)                              *)
(***************************************************************************)
EXTENDS Integers, Sequences, FiniteSets, TLC

VARIABLES
    dsrc,       \* run of one function: the text or path given to it
    dstyle,     \* Declarator run: the style profile given to it
    douts,      \* run of one function: results of the successive applications
    penv,       \* the value of PATH_MAPS in the environment
    path_maps,  \* _PATH_MAPS, the path map loaded at import
    disk,       \* file system: path -> content of the file (NoFile: absent)
    bak,        \* file system: path -> content of path + ".bak" (NoFile: absent)
    rules,      \* the rule set read from patterns.yaml
    run,        \* fix_selected: per invocation, its position and locals;
                \* legacy Fixer: the last call, its arguments and its result
    nruns,      \* number of invocations started
    hist,       \* history: disk at start, files whose backup copy raised
    JOBS,       \* the job-status map: job id -> job record
    JOBS_LOCK,  \* the lock: "free" or the thread that holds it
    thr,        \* the threads of the service: position and locals of each
    access      \* the access to JOBS or a job record made by the last step

dvars == <<dsrc, dstyle, douts, penv, path_maps>>
fvars == <<disk, bak, rules, run, nruns, hist>>
jvars == <<JOBS, JOBS_LOCK, thr, access>>
vars == <<dsrc, dstyle, douts, penv, path_maps, disk, bak, rules, run, nruns, hist,
          JOBS, JOBS_LOCK, thr, access>>

\* ------------------------------------------------------------------ bounds
MaxSegs == 3
MaxItems == 2
MaxRuns == 2

\* ------------------------------------------------------------------ helpers
Tok(k, a, b) == <<k, a, b>>
Kind(t) == t[1]
NL == Tok("nl", "", "")
LB == Tok("lb", "", "")
RB == Tok("rb", "", "")
SQ == Tok("sq", "", "")
DQ == Tok("dq", "", "")
BS == Tok("bs", "", "")
LC == Tok("lc", "", "")
BO == Tok("bo", "", "")
BC == Tok("bc", "", "")
FN == Tok("fn", "", "")
DOC == Tok("doc", "", "")
This(n) == Tok("this", "", n)
Call(n) == Tok("call", "", n)
Decl(v, n) == Tok("decl", v, n)
Cls(n) == Tok("cls", "", n)
Code(c) == Tok("code", "", c)
Acc(k) == Tok("acc", "", k)
Coal(k) == Tok("coal", "", k)

MinOf(S) == CHOOSE x \in S : \A y \in S : x <= y
MaxOf(S) == CHOOSE x \in S : \A y \in S : x >= y

\* Python slice s[a:b] with 0-based a, b (0 <= a, b <= len), as a sequence.
Slice(s, a, b) == SubSeq(s, a + 1, b)

\* Property names of the model, in the order sorted() gives them.
NameSeq == <<"a", "bar", "baz", "foo", "m", "x">>

\* sorted(set(names)) for a set of names.
SortedNames(S) == SelectSeq(NameSeq, LAMBDA n : n \in S)

\* ------------------------------------------------- line starts (^ with re.M)
\* i is preceded, back to the start of its line, by whitespace only: the
\* position where "^\s*" can end.
RECURSIVE AtLineStart(_, _)
AtLineStart(s, i) ==
    \/ i = 1
    \/ Kind(s[i - 1]) = "nl"
    \/ (Kind(s[i - 1]) = "ws" /\ AtLineStart(s, i - 1))

\* s.find("\n", from0): 0-based offset of the first newline at or after the
\* 0-based offset from0, or -1.
FindNL(s, from0) ==
    LET hits == {i \in (from0 + 1)..Len(s) : Kind(s[i]) = "nl"}
    IN  IF hits = {} THEN -1 ELSE MinOf(hits) - 1

\* ------------------------------------------- fixer.py: _iter_class_regions
\* The heredoc end test made at a newline: the next line (from 1-based index j
\* to the next newline or the end of the text) is the identifier `tag`,
\* optionally followed by ";" and blanks, starting in column 0.
HereEnds(src, j, tag) ==
    LET e == FindNL(src, j - 1)
        last == IF e = -1 THEN Len(src) ELSE e
    IN  /\ j <= last
        /\ Kind(src[j]) = "tag"
        /\ src[j][3] = tag
        /\ \A k \in (j + 1)..last : Kind(src[k]) = "ws"

\* A quote at index i ends a string iff the character before it is not a
\* backslash (prev != "\\").
QuoteCloses(src, i) == Kind(src[i - 1]) # "bs"

\* The while loop of _iter_class_regions from index i with the given depth
\* and lexical mode: the 1-based index of the brace that brings depth to 0,
\* or 0 when the text ends first.
RECURSIVE ScanClose(_, _, _, _, _)
ScanClose(src, i, depth, mode, tag) ==
    IF depth = 0 THEN i - 1
    ELSE IF i > Len(src) THEN 0
    ELSE LET k == Kind(src[i]) IN
      CASE mode = "here" ->
             IF k = "nl" /\ HereEnds(src, i + 1, tag)
             THEN ScanClose(src, i + 1, depth, "n", tag)
             ELSE ScanClose(src, i + 1, depth, "here", tag)
        [] mode = "line" ->
             ScanClose(src, i + 1, depth, IF k = "nl" THEN "n" ELSE "line", tag)
        [] mode = "block" ->
             ScanClose(src, i + 1, depth,
                       IF k \in {"bc", "doc"} THEN "n" ELSE "block", tag)
        [] mode = "sq" ->
             ScanClose(src, i + 1, depth,
                       IF k = "sq" /\ QuoteCloses(src, i) THEN "n" ELSE "sq", tag)
        [] mode = "dq" ->
             ScanClose(src, i + 1, depth,
                       IF k = "dq" /\ QuoteCloses(src, i) THEN "n" ELSE "dq", tag)
        [] OTHER ->
             CASE k = "sq" -> ScanClose(src, i + 1, depth, "sq", tag)
               [] k = "dq" -> ScanClose(src, i + 1, depth, "dq", tag)
               [] k = "lc" -> ScanClose(src, i + 1, depth, "line", tag)
               [] k = "bo" -> ScanClose(src, i + 1, depth, "block", tag)
               [] k = "lb" -> ScanClose(src, i + 1, depth + 1, "n", tag)
               [] k = "rb" -> ScanClose(src, i + 1, depth - 1, "n", tag)
               [] k = "here" -> ScanClose(src, i + 1, depth, "here", src[i][3])
               [] OTHER -> ScanClose(src, i + 1, depth, "n", tag)

\* _CLASS_LINE_RE.finditer(src) from 1-based index pos: for each match, the
\* index of the "{" that ends it (m.end() - 1).  A match starts at a line
\* start, takes "class Name" and then everything up to the first "{".
RECURSIVE ClassLineMatches(_, _)
ClassLineMatches(src, pos) ==
    LET cands == {i \in pos..Len(src) :
                    /\ Kind(src[i]) = "cls"
                    /\ AtLineStart(src, i)
                    /\ \E j \in (i + 1)..Len(src) : Kind(src[j]) = "lb"}
    IN  IF cands = {} THEN <<>>
        ELSE LET i == MinOf(cands)
                 j == MinOf({j \in (i + 1)..Len(src) : Kind(src[j]) = "lb"})
             IN  <<j>> \o ClassLineMatches(src, j + 1)

RECURSIVE RegionsFrom(_, _, _)
RegionsFrom(src, opens, k) ==
    IF k > Len(opens) THEN <<>>
    ELSE LET c == ScanClose(src, opens[k] + 1, 1, "n", "")
         IN  (IF c = 0 THEN <<>> ELSE <<[open_idx |-> opens[k], close_idx |-> c]>>)
             \o RegionsFrom(src, opens, k + 1)

\* list(_iter_class_regions(src)): open_idx and close_idx are the 1-based
\* indices of the region's "{" and "}".
IterClassRegions(src) == RegionsFrom(src, ClassLineMatches(src, 1), 1)

\* ------------------------------------------------ fixer.py: the regexes
\* _PROP_DECL_RE.finditer(body): the indices of the declarations matched
\* (a declaration keyword is matched only after "^\s*").
PropDeclMatches(body) ==
    {i \in 1..Len(body) : Kind(body[i]) = "decl" /\ AtLineStart(body, i)}

\* {m.group(1) for m in _THIS_PROP_RE.finditer(body)}.
ThisPropNames(body) ==
    {body[i][3] : i \in {j \in 1..Len(body) : Kind(body[j]) \in {"this", "call"}}}

\* _METHOD_RE.search(body).start() as a 0-based offset, or -1 for no match.
\* The match starts at the leftmost line start from which only whitespace
\* precedes the keyword.
MethodStart(body) ==
    LET fns == {i \in 1..Len(body) : Kind(body[i]) = "fn" /\ AtLineStart(body, i)}
    IN  IF fns = {} THEN -1
        ELSE LET i == MinOf(fns)
                 starts == {q \in 1..i :
                              /\ q = 1 \/ Kind(body[q - 1]) = "nl"
                              /\ \A k \in q..(i - 1) : Kind(body[k]) \in {"ws", "nl"}}
             IN  MinOf(starts) - 1

\* _DOCBLOCK_RE.search(body, 0, endpos).end() as a 0-based offset, or -1.
DocEnd(body, endpos) ==
    LET docs == {i \in 1..Len(body) : Kind(body[i]) = "doc" /\ i <= endpos}
    IN  IF docs = {} THEN -1 ELSE MinOf(docs)

\* ------------------------------------------ fixer.py: _infer_prop_decl_style
DeclCount(src, v) ==
    Cardinality({i \in 1..Len(src) :
                   Kind(src[i]) = "decl" /\ src[i][2] = v /\ AtLineStart(src, i)})

Max3(a, b, c) == MaxOf({a, b, c})

InferPropDeclStyle(src) ==
    LET var_count == DeclCount(src, "var")
        pub_count == DeclCount(src, "public")
        pro_count == DeclCount(src, "protected")
        pri_count == DeclCount(src, "private")
    IN  IF var_count >= pub_count + pro_count + pri_count THEN "var"
        ELSE IF Max3(pub_count, pro_count, pri_count) = pub_count THEN "public"
        ELSE IF Max3(pub_count, pro_count, pri_count) = pro_count THEN "protected"
        ELSE "private"

\* ------------------------------------------------ fixer.py: _find_insert_point
FindInsertPoint(body) ==
    LET props == PropDeclMatches(body) IN
    IF props # {}
    THEN LET e == FindNL(body, MaxOf(props))
         IN  IF e = -1 THEN Len(body) ELSE e + 1
    ELSE LET first_m == MethodStart(body)
             first_doc == DocEnd(body, IF first_m # -1 THEN first_m ELSE Len(body))
         IN  IF first_doc # -1
             THEN LET e == FindNL(body, first_doc)
                  IN  IF e = -1 THEN Len(body) ELSE e + 1
             ELSE 0

\* ------------------------------------------------------ fixer.py: _decl_text
Eol(style) == IF style.eol = "crlf" THEN <<Tok("ws", "cr", ""), NL>> ELSE <<NL>>

RECURSIVE DeclLines(_, _, _, _)
DeclLines(uniq, k, style, decl_style) ==
    IF k > Len(uniq) THEN <<>>
    ELSE <<Tok("ws", style.indent, ""), Decl(decl_style, uniq[k])>> \o Eol(style)
         \o DeclLines(uniq, k + 1, style, decl_style)

DeclText(names, style, decl_style) == DeclLines(SortedNames(names), 1, style, decl_style)

\* -------------------------------- fixer.py: _fix_dynamic_properties_declare
\* One region of the reversed loop, applied to the text as edited so far.
\* r.origin is a history of the edit and no part of the program's state: for
\* each lexeme of r.src, its index in the input text, or 0 when inserted.
DeclareInRegion(r, reg, style, decl_style) ==
    LET open0 == reg.open_idx          \* 0-based offset just after "{"
        body == Slice(r.src, open0, reg.close_idx - 1)
        declared == {body[i][3] : i \in PropDeclMatches(body)}
        used == ThisPropNames(body)
        missing == used \ declared
        insert_abs == open0 + FindInsertPoint(body)
        text == DeclText(missing, style, decl_style)
    IN  IF missing = {} THEN r
        ELSE [src |-> Slice(r.src, 0, insert_abs) \o text
                       \o Slice(r.src, insert_abs, Len(r.src)),
              changed |-> TRUE,
              notes |-> r.notes \o <<[style |-> decl_style,
                                      names |-> SortedNames(missing)]>>,
              origin |-> Slice(r.origin, 0, insert_abs) \o [i \in 1..Len(text) |-> 0]
                         \o Slice(r.origin, insert_abs, Len(r.origin))]

RECURSIVE DeclareLoop(_, _, _, _, _)
DeclareLoop(r, regions, k, style, decl_style) ==
    IF k = 0 THEN r
    ELSE DeclareLoop(DeclareInRegion(r, regions[k], style, decl_style),
                     regions, k - 1, style, decl_style)

FixDynamicPropertiesDeclare(src, style) ==
    LET regions == IterClassRegions(src)
        r0 == [src |-> src, changed |-> FALSE, notes |-> <<>>,
               origin |-> [i \in 1..Len(src) |-> i]]
    IN  IF regions = <<>> THEN r0
        ELSE DeclareLoop(r0, regions, Len(regions), style, InferPropDeclStyle(src))

\* ---------------------------------------------------- Declarator: inputs
\* Pieces of class bodies; a body is a concatenation of at most MaxSegs pieces.
Segs ==
    << <<NL>>,
       <<Decl("public", "a")>>,
       <<NL, Decl("var", "a")>>,
       <<NL, Decl("protected", "bar")>>,
       <<NL, Decl("public", "x")>>,
       <<FN, LB, This("x"), RB>>,
       <<This("foo")>>,
       <<DQ, This("bar"), DQ>>,
       <<LC, This("baz"), NL>>,
       <<SQ, BS, BS, SQ>>,
       <<DOC>>,
       <<Call("m")>>,
       <<Tok("here", "", "T"), NL, LB, NL, Tok("tag", "", "T"), NL>> >>

RECURSIVE BodiesOf(_)
BodiesOf(k) ==
    IF k = 0 THEN {<<>>}
    ELSE {Segs[i] \o b : i \in 1..Len(Segs), b \in BodiesOf(k - 1)}

Bodies == UNION {BodiesOf(k) : k \in 0..MaxSegs}

\* What follows the first class: nothing, a newline, or a documented second
\* class whose body holds a line comment with an apostrophe.
Tails ==
    { <<>>,
      <<NL>>,
      <<NL, DOC, NL, Cls("B"), LB, LC, SQ, NL, RB, NL>> }

Inputs == {<<Cls("A"), LB>> \o b \o <<RB>> \o t : b \in Bodies, t \in Tails}

Styles == { [indent |-> "sp4", eol |-> "lf"], [indent |-> "tab", eol |-> "crlf"] }

\* No job service: no job, no thread, the lock free.
JobsQuiet ==
    /\ JOBS = <<>>
    /\ JOBS_LOCK = "free"
    /\ thr = <<>>
    /\ access = <<>>

\* ------------------------------------------------- Declarator: the runs
\* The file system part of the state at rest (no file, no invocation).
FsQuiet ==
    /\ disk = <<>>
    /\ bak = <<>>
    /\ rules = <<>>
    /\ run = <<>>
    /\ nruns = 0
    /\ hist = <<>>
    /\ penv = [kind |-> "absent", maps |-> <<>>]
    /\ path_maps = <<>>

\* The Declarator part of the state at rest.
DeclQuiet ==
    /\ dsrc = <<>>
    /\ dstyle = [indent |-> "sp4", eol |-> "lf"]
    /\ douts = <<>>

DeclInit ==
    /\ JobsQuiet
    /\ dsrc \in Inputs
    /\ dstyle \in Styles
    /\ douts = <<>>
    /\ FsQuiet

\* _fix_dynamic_properties_declare(src, style)
DeclApply ==
    /\ Len(douts) = 0
    /\ douts' = <<FixDynamicPropertiesDeclare(dsrc, dstyle)>>
    /\ UNCHANGED <<dsrc, dstyle, penv, path_maps, fvars, jvars>>

\* _fix_dynamic_properties_declare applied to its own output
DeclReapply ==
    /\ Len(douts) = 1
    /\ douts' = Append(douts, FixDynamicPropertiesDeclare(douts[1].src, dstyle))
    /\ UNCHANGED <<dsrc, dstyle, penv, path_maps, fvars, jvars>>

DeclNext == DeclApply \/ DeclReapply

SpecDecl == DeclInit /\ [][DeclNext]_vars

\* ------------------------------------------- Declarator: reference lexing
\* PHP's own reading of the text, used to state what the claims promise: a
\* quote ends a string iff an even number of backslashes precedes it.
RECURSIVE BsRun(_, _)
BsRun(src, i) == IF i >= 1 /\ Kind(src[i]) = "bs" THEN 1 + BsRun(src, i - 1) ELSE 0

RefQuoteCloses(src, i) == BsRun(src, i - 1) % 2 = 0

\* The lexical mode after lexeme i, read in mode `mode` with heredoc tag `tag`.
RefModeAfter(src, i, mode, tag) ==
    LET k == Kind(src[i]) IN
      CASE mode = "here" -> IF k = "nl" /\ HereEnds(src, i + 1, tag) THEN "n" ELSE "here"
        [] mode = "line" -> IF k = "nl" THEN "n" ELSE "line"
        [] mode = "block" -> IF k \in {"bc", "doc"} THEN "n" ELSE "block"
        [] mode = "sq" -> IF k = "sq" /\ RefQuoteCloses(src, i) THEN "n" ELSE "sq"
        [] mode = "dq" -> IF k = "dq" /\ RefQuoteCloses(src, i) THEN "n" ELSE "dq"
        [] OTHER -> CASE k = "sq" -> "sq"
                      [] k = "dq" -> "dq"
                      [] k = "lc" -> "line"
                      [] k = "bo" -> "block"
                      [] k = "here" -> "here"
                      [] OTHER -> "n"

\* The index of the "}" that matches the "{" before index i, or 0.
RECURSIVE RefClose(_, _, _, _, _)
RefClose(src, i, depth, mode, tag) ==
    IF depth = 0 THEN i - 1
    ELSE IF i > Len(src) THEN 0
    ELSE LET k == Kind(src[i])
             d == IF mode = "n" /\ k = "lb" THEN depth + 1
                  ELSE IF mode = "n" /\ k = "rb" THEN depth - 1 ELSE depth
         IN  RefClose(src, i + 1, d, RefModeAfter(src, i, mode, tag),
                      IF mode = "n" /\ k = "here" THEN src[i][3] ELSE tag)

\* The class bodies, each "}" the one that matches the class's "{".
RefRegions(src) ==
    LET opens == ClassLineMatches(src, 1)
        ok == SelectSeq(opens, LAMBDA o : RefClose(src, o + 1, 1, "n", "") # 0)
    IN  [g \in 1..Len(ok) |->
           [open_idx |-> ok[g], close_idx |-> RefClose(src, ok[g] + 1, 1, "n", "")]]

\* The indices of the lexemes that lie outside every string, comment and
\* heredoc span, reading the text from index i in the given mode.
RECURSIVE RefNormalIdx(_, _, _, _)
RefNormalIdx(src, i, mode, tag) ==
    IF i > Len(src) THEN {}
    ELSE (IF mode = "n" /\ RefModeAfter(src, i, mode, tag) = "n" THEN {i} ELSE {})
         \cup RefNormalIdx(src, i + 1, RefModeAfter(src, i, mode, tag),
                           IF mode = "n" /\ Kind(src[i]) = "here" THEN src[i][3] ELSE tag)

\* The names referenced through $this-> outside strings, comments, heredocs.
RealRefNames(src) ==
    {src[i][3] : i \in {j \in RefNormalIdx(src, 1, "n", "") :
                          Kind(src[j]) \in {"this", "call"}}}

\* All names a result reports as declared.
InsertedNames(r) == UNION {{r.notes[k].names[j] : j \in 1..Len(r.notes[k].names)}
                           : k \in 1..Len(r.notes)}

\* The number of input lexemes that precede position j of a result's text.
InputOffset(r, j) == Cardinality({i \in 1..(j - 1) : r.origin[i] # 0})

\* A result's text with the inserted lexemes deleted.
RECURSIVE KeptFrom(_, _)
KeptFrom(r, j) ==
    IF j > Len(r.src) THEN <<>>
    ELSE (IF r.origin[j] # 0 THEN <<r.src[j]>> ELSE <<>>) \o KeptFrom(r, j + 1)

\* ------------------------------------------------ Declarator: the claims
\* C7: the Declarator is idempotent: applied to its own output it returns
\* that output unchanged and reports changed = false.
C7_DeclaratorIdempotent ==
    Len(douts) = 2 => (douts[2].src = douts[1].src /\ douts[2].changed = FALSE)

\* C8: only names referenced outside string, comment and heredoc spans are
\* declared.
C8_OnlyRealReferencesDeclared ==
    Len(douts) >= 1 => InsertedNames(douts[1]) \subseteq RealRefNames(dsrc)

\* C9: the keyword of the inserted declarations is the file's majority style
\* among var, public, protected and private, ties going to public (so public
\* for a file that declares no property).
C9_MajorityStyleTiesPublic ==
    Len(douts) >= 1 =>
      \A k \in 1..Len(douts[1].notes) :
        LET st == douts[1].notes[k].style
            top == MaxOf({DeclCount(dsrc, v) : v \in {"var", "public", "protected", "private"}})
        IN  /\ DeclCount(dsrc, st) = top
            /\ DeclCount(dsrc, "public") = top => st = "public"

\* C10: the Declarator only inserts, every insertion lies strictly between a
\* class's opening brace and its matching closing brace, the input's lexemes
\* are preserved in order, and nothing changes when no property is missing.
C10_InsertsOnlyInsideClassBody ==
    Len(douts) >= 1 =>
      LET r == douts[1] IN
        /\ KeptFrom(r, 1) = dsrc
        /\ \A j \in 1..Len(r.src) :
             r.origin[j] = 0 =>
               \E g \in 1..Len(RefRegions(dsrc)) :
                 /\ RefRegions(dsrc)[g].open_idx <= InputOffset(r, j)
                 /\ InputOffset(r, j) < RefRegions(dsrc)[g].close_idx
        /\ (r.notes = <<>> => r.src = dsrc)

\* C21: the regions _iter_class_regions yields are the class bodies as PHP
\* reads them: braces inside strings (a quote after an escaped backslash
\* ending the string), comments and heredocs do not count, and each close
\* index is the brace that matches the class's opening brace.
C21_RegionsCloseAtMatchingBrace ==
    Len(douts) >= 1 => IterClassRegions(dsrc) = RefRegions(dsrc)

\* C21, the texts in which no quote follows a backslash: there the regions
\* are the class bodies as PHP reads them.
C21_RegionsWithoutBackslash ==
    (Len(douts) >= 1 /\ \A i \in 1..Len(dsrc) : Kind(dsrc[i]) # "bs")
        => IterClassRegions(dsrc) = RefRegions(dsrc)

\* ------------------------------------------------- fixer.py: infer_style
\* _infer_eol: "\r\n" iff CRLF line ends outnumber bare LF line ends.
InferEol(code) ==
    LET nls == {i \in 1..Len(code) : Kind(code[i]) = "nl"}
        crlf == Cardinality({i \in nls : i > 1 /\ code[i - 1] = Tok("ws", "cr", "")})
        lf == Cardinality(nls) - crlf
    IN  IF crlf > lf THEN "crlf" ELSE "lf"

\* Width in blanks of a blank lexeme (0 for a tab or a carriage return).
SpWidth(t) == IF t = Tok("ws", "sp4", "") THEN 4 ELSE IF t = Tok("ws", "sp8", "") THEN 8 ELSE 0

\* The indices that start a line.
LineStarts(code) == {i \in 1..Len(code) : i = 1 \/ Kind(code[i - 1]) = "nl"}

\* The index of the first lexeme at or after i that is not of the blank kind
\* w ("sp" for blanks, "tab" for tabs), or Len + 1.
RECURSIVE SkipLead(_, _, _)
SkipLead(code, i, w) ==
    IF i > Len(code) THEN i
    ELSE IF w = "sp" /\ SpWidth(code[i]) > 0 THEN SkipLead(code, i + 1, w)
    ELSE IF w = "tab" /\ code[i] = Tok("ws", "tab", "") THEN SkipLead(code, i + 1, w)
    ELSE i

\* Line start i matches "^\t+\S" (w = "tab") or "^( +)\S" (w = "sp").
LeadMatches(code, i, w) ==
    LET j == SkipLead(code, i, w)
    IN  j > i /\ j <= Len(code) /\ Kind(code[j]) \notin {"ws", "nl"}

RECURSIVE LeadWidth(_, _, _)
LeadWidth(code, i, j) == IF i >= j THEN 0 ELSE SpWidth(code[i]) + LeadWidth(code, i + 1, j)

\* [len(m.group(1)) for m in re.finditer(r"^( +)\S", code, re.M)], from index i.
RECURSIVE SpLeads(_, _)
SpLeads(code, i) ==
    IF i > Len(code) THEN <<>>
    ELSE (IF i \in LineStarts(code) /\ LeadMatches(code, i, "sp")
          THEN <<LeadWidth(code, i, SkipLead(code, i, "sp"))>> ELSE <<>>)
         \o SpLeads(code, i + 1)

\* The increases between successive leads, in order (the keys counted in steps).
RECURSIVE LeadSteps(_, _)
LeadSteps(leads, k) ==
    IF k > Len(leads) THEN <<>>
    ELSE (IF leads[k] > leads[k - 1] THEN <<leads[k] - leads[k - 1]>> ELSE <<>>)
         \o LeadSteps(leads, k + 1)

\* max(steps, key=steps.get): the most frequent step, the first counted on a tie.
MostFrequent(steps) ==
    LET count(d) == Cardinality({k \in 1..Len(steps) : steps[k] = d})
        top == MaxOf({count(steps[k]) : k \in 1..Len(steps)})
    IN  steps[MinOf({k \in 1..Len(steps) : count(steps[k]) = top})]

\* _infer_indent: a tab, or blanks of the inferred size.
InferIndent(code) ==
    LET tab_lines == Cardinality({i \in LineStarts(code) : LeadMatches(code, i, "tab")})
        sp_leads == SpLeads(code, 1)
        steps == IF Len(sp_leads) >= 2 THEN LeadSteps(sp_leads, 2) ELSE <<>>
        size == IF steps = <<>> THEN 4
                ELSE LET m == MostFrequent(steps)
                     IN  IF m \in {2, 3, 4, 8} THEN m ELSE IF m >= 4 THEN 4 ELSE 2
    IN  IF tab_lines > Len(sp_leads) THEN "tab"
        ELSE IF size = 8 THEN "sp8" ELSE "sp4"

\* infer_style, the two fields the Declarator reads.
InferStyle(code) == [indent |-> InferIndent(code), eol |-> InferEol(code)]

\* ------------------------------------------ fixer.py: apply_rule_based_fix
\* A rule is [id, search, replace, bad]: search and replace are literal texts
\* (no regex operator, no backslash, so _sanitize_replacement leaves replace
\* as it is); bad marks a search that re.compile rejects.
Note(tag, id, n, names) == [tag |-> tag, id |-> id, n |-> n, names |-> names]

MatchesAt(search, code, i) ==
    /\ i + Len(search) - 1 <= Len(code)
    /\ \A k \in 1..Len(search) : code[i + k - 1] = search[k]

\* rx.subn(replace, code) from index i: every non-overlapping match, left to
\* right, replaced; the new text and the number of replacements.
RECURSIVE Subn(_, _, _, _)
Subn(search, replace, code, i) ==
    IF i > Len(code) THEN [code |-> <<>>, n |-> 0]
    ELSE IF MatchesAt(search, code, i)
    THEN LET rest == Subn(search, replace, code, i + Len(search))
         IN  [code |-> replace \o rest.code, n |-> rest.n + 1]
    ELSE LET rest == Subn(search, replace, code, i + 1)
         IN  [code |-> <<code[i]>> \o rest.code, n |-> rest.n]

\* One pass of the for loop of apply_rule_based_fix.
ApplyRule(r, acc) ==
    IF r.search = <<>> THEN acc
    ELSE IF r.bad THEN [acc EXCEPT !.note = Append(@, Note("bad_regex", r.id, 0, <<>>))]
    ELSE LET res == Subn(r.search, r.replace, acc.code, 1)
         IN  IF res.n > 0
             THEN [code |-> res.code, changed |-> TRUE,
                   note |-> Append(acc.note, Note("rule", r.id, res.n, <<>>))]
             ELSE acc

\* A loop that ends at the first rule whose pattern does not compile.
RECURSIVE RulesLoop_AbortOnBad(_, _, _)
RulesLoop_AbortOnBad(rs, k, acc) ==
    IF k > Len(rs) \/ (rs[k].search # <<>> /\ rs[k].bad) THEN acc
    ELSE RulesLoop_AbortOnBad(rs, k + 1, ApplyRule(rs[k], acc))

RECURSIVE RulesLoop(_, _, _)
RulesLoop(rs, k, acc) ==
    IF k > Len(rs) THEN acc ELSE RulesLoop(rs, k + 1, ApplyRule(rs[k], acc))

\* The rules applied last to first.
ApplyRuleBasedFix_Reversed(src, rs) ==
    RulesLoop([k \in 1..Len(rs) |-> rs[Len(rs) + 1 - k]], 1,
              [code |-> src, changed |-> FALSE, note |-> <<>>])

ApplyRuleBasedFix(src, rs) ==
    RulesLoop(rs, 1, [code |-> src, changed |-> FALSE, note |-> <<>>])

\* ------------------------------------------------------ fixer.py: llm_fix
\* str.strip(): leading and trailing newlines and blanks removed.
RECURSIVE LStrip(_)
LStrip(t) == IF t # <<>> /\ Kind(t[1]) \in {"ws", "nl"} THEN LStrip(Tail(t)) ELSE t

RECURSIVE RStrip(_)
RStrip(t) ==
    IF t # <<>> /\ Kind(t[Len(t)]) \in {"ws", "nl"} THEN RStrip(SubSeq(t, 1, Len(t) - 1)) ELSE t

Strip(t) == RStrip(LStrip(t))

\* An llm_fix that answers a raised exception with an emptied text.
LlmFix_RaiseEmpties(code, reply) ==
    IF reply.kind = "raise"
    THEN [code |-> <<>>, changed |-> TRUE, note |-> <<Note("llm:error", "", 0, <<>>)>>]
    ELSE [code |-> code, changed |-> FALSE, note |-> <<Note("llm:no_change", "", 0, <<>>)>>]

\* llm_fix(file_path, code, error_snippet) for one outcome of chat(): a raised
\* exception, or the text of the reply (stripped by chat, then by llm_fix).
LlmFix(code, reply) ==
    IF reply.kind = "raise"
    THEN [code |-> code, changed |-> FALSE, note |-> <<Note("llm:error", "", 0, <<>>)>>]
    ELSE LET fixed == Strip(Strip(reply.body))
         IN  IF fixed # <<>> /\ fixed # code
             THEN [code |-> fixed, changed |-> TRUE, note |-> <<Note("llm", "", 0, <<>>)>>]
             ELSE [code |-> code, changed |-> FALSE,
                   note |-> <<Note("llm:no_change", "", 0, <<>>)>>]
\* --------------------------------------------- fixer.py: path resolution
\* A path text is a sequence of pieces: the separator "/", the backslash,
\* the dot, and name pieces; ".." is two dots. The pieces are chosen so that
\* no piece is the beginning of another: one text begins with another
\* exactly when its pieces begin with the other's pieces.
SEP == "/"
BSL == "\\"
DOT == "."

\* len() of a piece, and of a text.
PieceLen(t) ==
    CASE t \in {SEP, BSL, DOT, "x"} -> 1
      [] t = "D:" -> 2
      [] t \in {"app", "srv", "mnt", "sub", "php"} -> 3
      [] t \in {"home", "proj"} -> 4
      [] t \in {"XAMPP", "a.php", "b.tpl", "c.txt", "x.php", "y.php", "other"} -> 5
      [] t \in {"docker", "htdocs"} -> 6
      [] t \in {"lication", "gone.php", "branches"} -> 8
      [] t = "www-virtual" -> 11
      [] t \in {"kangoiryo.jp", "mungunshagai"} -> 12
      [] OTHER -> 1

RECURSIVE StrLen(_)
StrLen(s) == IF s = <<>> THEN 0 ELSE PieceLen(Head(s)) + StrLen(Tail(s))

\* str.replace(a, b) for one-character a and b.
ReplaceChar(s, a, b) == [i \in 1..Len(s) |-> IF s[i] = a THEN b ELSE s[i]]

\* str.rstrip(chars).
RECURSIVE RStripChars(_, _)
RStripChars(s, chars) ==
    IF s # <<>> /\ s[Len(s)] \in chars THEN RStripChars(SubSeq(s, 1, Len(s) - 1), chars) ELSE s

StartsWith(s, pre) == Len(pre) <= Len(s) /\ SubSeq(s, 1, Len(pre)) = pre

\* path.split("/"): the texts between the separators, from piece i on, cur
\* being the component under way.
RECURSIVE SplitSep(_, _, _)
SplitSep(s, i, cur) ==
    IF i > Len(s) THEN <<cur>>
    ELSE IF s[i] = SEP THEN <<cur>> \o SplitSep(s, i + 1, <<>>)
    ELSE SplitSep(s, i + 1, Append(cur, s[i]))

\* The loop of posixpath.normpath over the components: "" and "." dropped,
\* ".." takes back the component before it, is dropped at the root, and is
\* kept at the front of a relative path.
RECURSIVE NormComps(_, _, _)
NormComps(comps, acc, rooted) ==
    IF comps = <<>> THEN acc
    ELSE LET c == Head(comps)
         IN  IF c = <<>> \/ c = <<DOT>> THEN NormComps(Tail(comps), acc, rooted)
             ELSE IF c # <<DOT, DOT>> \/ (~rooted /\ acc = <<>>)
                                     \/ (acc # <<>> /\ acc[Len(acc)] = <<DOT, DOT>>)
             THEN NormComps(Tail(comps), Append(acc, c), rooted)
             ELSE IF acc # <<>>
             THEN NormComps(Tail(comps), SubSeq(acc, 1, Len(acc) - 1), rooted)
             ELSE NormComps(Tail(comps), acc, rooted)

\* "/".join(comps).
RECURSIVE JoinSep(_)
JoinSep(comps) ==
    IF comps = <<>> THEN <<>>
    ELSE IF Len(comps) = 1 THEN Head(comps)
    ELSE Head(comps) \o <<SEP>> \o JoinSep(Tail(comps))

\* os.path.normpath (posixpath): one leading separator kept, two kept when
\* there are exactly two, "." for an empty result.
NormPath(s) ==
    IF s = <<>> THEN <<DOT>>
    ELSE LET initial == IF s[1] # SEP THEN <<>>
                        ELSE IF Len(s) >= 2 /\ s[2] = SEP /\ ~(Len(s) >= 3 /\ s[3] = SEP)
                        THEN <<SEP, SEP>> ELSE <<SEP>>
             out == initial \o JoinSep(NormComps(SplitSep(s, 1, <<>>), <<>>, initial # <<>>))
         IN  IF out = <<>> THEN <<DOT>> ELSE out

\* os.path.isabs and os.path.join(a, b) (posixpath).
IsAbs(s) == s # <<>> /\ s[1] = SEP

PathJoin(a, b) ==
    IF IsAbs(b) THEN b
    ELSE IF a = <<>> \/ a[Len(a)] = SEP THEN a \o b
    ELSE a \o <<SEP>> \o b

\* os.sep.
OsSep == SEP

\* One entry of the path map; an entry that is not a dict, or lacks a key,
\* has an empty from or to.
PathMap(from, to) == [from |-> from, to |-> to]

\* The map _load_path_maps falls back to.
DefaultPathMaps ==
    <<PathMap(<<SEP, "home", SEP, "www-virtual", SEP, "kangoiryo.jp">>,
              <<"D:", BSL, "XAMPP", BSL, "htdocs", BSL, "kangoiryo.jp", BSL, "branches",
                BSL, "mungunshagai">>)>>

\* A sort that leaves the entries in the order of the configuration.
SortByFromLen_Unsorted(maps) == maps

\* maps.sort(key=lambda m: len(str(m["from"])), reverse=True): longest from
\* first, entries of equal length in their original order.
RECURSIVE SortByFromLen(_)
SortByFromLen(maps) ==
    IF maps = <<>> THEN <<>>
    ELSE LET top == MaxOf({StrLen(maps[i].from) : i \in 1..Len(maps)})
             k == MinOf({i \in 1..Len(maps) : StrLen(maps[i].from) = top})
         IN  <<maps[k]>> \o SortByFromLen(SubSeq(maps, 1, k - 1) \o SubSeq(maps, k + 1, Len(maps)))

RECURSIVE FilterMaps(_)
FilterMaps(maps) ==
    IF maps = <<>> THEN <<>>
    ELSE (IF Head(maps).from # <<>> /\ Head(maps).to # <<>> THEN <<Head(maps)>> ELSE <<>>)
         \o FilterMaps(Tail(maps))

\* _load_path_maps for a value of PATH_MAPS: absent, not parsable as JSON,
\* or a list of entries.
LoadPathMaps(env) ==
    LET parsed == IF env.kind = "list" THEN env.maps ELSE <<>>
        maps == IF parsed = <<>> THEN DefaultPathMaps ELSE parsed
    IN  SortByFromLen(FilterMaps(maps))

\* remap_host_path(path_in) with _PATH_MAPS = maps; k is the entry tried.
RECURSIVE RemapFrom(_, _, _)
RemapFrom(maps, k, path_in) ==
    LET u == ReplaceChar(path_in, BSL, SEP)
        src == ReplaceChar(RStripChars(maps[k].from, {SEP}), BSL, SEP)
        tail == SubSeq(u, Len(src) + 1, Len(u))
        dst == RStripChars(maps[k].to, {BSL, SEP})
    IN  IF k > Len(maps) THEN NormPath(path_in)
        ELSE IF StartsWith(u, src) THEN NormPath(dst \o ReplaceChar(tail, SEP, OsSep))
        ELSE RemapFrom(maps, k + 1, path_in)

RemapWith(maps, path_in) == IF path_in = <<>> THEN path_in ELSE RemapFrom(maps, 1, path_in)

RemapHostPath(path_in) == RemapWith(path_maps, path_in)

\* PATH_MAPS as the service is deployed: the container's directory is sent
\* to the project root on the host.
ProjectRoot == <<SEP, "proj">>
DeployedEnv == [kind |-> "list", maps |-> <<PathMap(<<SEP, "docker">>, ProjectRoot)>>]

\* The path map of the deployed service, loaded at import.
PathsDeployed ==
    /\ penv = DeployedEnv
    /\ path_maps = LoadPathMaps(penv)

\* abs_path of fix_selected: the remapped path, joined to the project root
\* unless rooted.
AbsPath(path_in) ==
    LET candidate == RemapHostPath(path_in)
    IN  IF IsAbs(candidate) THEN candidate
        ELSE NormPath(PathJoin(ProjectRoot, candidate))

\* abs_path.lower().endswith(".php"), on the last component.
EndsWithPhp(f) == f # <<>> /\ f[Len(f)] \in {"a.php", "gone.php", "x.php", "y.php"}

\* ------------------------------------------------ the files and the inputs
NoFile == <<Tok("nofile", "", "")>>

FileA == <<SEP, "proj", SEP, "a.php">>
FileB == <<SEP, "proj", SEP, "b.tpl">>
FileGone == <<SEP, "proj", SEP, "gone.php">>
Paths == {FileA, FileB, FileGone}

Content(d, f) == IF f \in DOMAIN d THEN d[f] ELSE NoFile

\* The "file" values of the items of a request.
RawFiles ==
    { <<>>, <<DOT, SEP, "a.php">>,
      <<SEP, "docker", SEP, "sub", SEP, DOT, DOT, SEP, "a.php">>, <<"b.tpl">>,
      <<"gone.php">> }

ItemSeqs == UNION { [1..n -> RawFiles] : n \in 0..MaxItems }

Rule(id, search, replace, bad) == [id |-> id, search |-> search, replace |-> replace, bad |-> bad]

\* The contents of patterns.yaml as load_rules returns them.
RuleSets ==
    { <<>>,
      <<Rule("noop", <<Code("old")>>, <<Code("old")>>, FALSE)>>,
      <<Rule("empty", <<>>, <<Code("new")>>, FALSE),
        Rule("bad", <<Code("(")>>, <<>>, TRUE),
        Rule("r1", <<Code("old")>>, <<Code("mid")>>, FALSE),
        Rule("r2", <<Code("mid")>>, <<Code("new")>>, FALSE)>> }

SP4 == Tok("ws", "sp4", "")

ContentsA ==
    { <<Cls("A"), LB, NL, SP4, This("x"), NL, RB, NL>>,
      <<Cls("A"), LB, NL, SP4, Decl("public", "x"), NL, SP4, This("x"), Code("old"), NL, RB, NL>> }

ContentsB == { <<Code("old"), NL>> }

\* What chat() can do, given the file text sent to it: raise, or reply with
\* nothing, with the text unchanged, or with another text.
Replies(code) ==
    { [kind |-> "raise", body |-> <<>>],
      [kind |-> "text", body |-> <<>>],
      [kind |-> "text", body |-> code],
      [kind |-> "text", body |-> <<Code("fixed"), NL>>] }
\* -------------------------------------------------- fixer.py: fix_selected
Workers == {1, 2}
DynModes == {"declare", "off"}

\* One entry of the list fix_selected returns; backup is <<>> where the
\* entry has no "backup" key, else the file the ".bak" stands beside.
Rec(file, changed, method, note, backup) ==
    [file |-> file, changed |-> changed, method |-> method, note |-> note, backup |-> backup]

\* The locals of one invocation; pc is the statement it stands before, pre
\* the files as the invocation found them, llm the calls of llm_fix it made
\* (the file, the note returned, whether chat raised).
IdleRun(d) ==
    [pc |-> "idle", items |-> <<>>, k |-> 0, seen |-> {}, abs_path |-> <<>>,
     src |-> <<>>, new_code |-> <<>>, changed |-> FALSE, method |-> <<>>,
     note |-> <<>>, results |-> <<>>, dyn_mode |-> "declare", pre |-> d,
     llm |-> <<>>]

Init ==
    /\ JobsQuiet
    /\ disk \in { [f \in Paths |-> IF f = FileA THEN a ELSE IF f = FileB THEN b ELSE NoFile] :
                    a \in ContentsA, b \in ContentsB }
    /\ bak = [f \in Paths |-> NoFile]
    /\ rules \in RuleSets
    /\ run = [p \in Workers |-> IdleRun(disk)]
    /\ nruns = 0
    /\ hist = [disk0 |-> disk, bak_failed |-> {}]
    /\ DeclQuiet
    /\ PathsDeployed

\* fix_selected(project_root, items, context_html, options) is entered.
FixSelectedCall(p, its, dyn) ==
    /\ run[p].pc = "idle"
    /\ nruns < MaxRuns
    /\ nruns' = nruns + 1
    /\ run' = [run EXCEPT ![p] = [IdleRun(disk) EXCEPT
                 !.pc = IF its = <<>> THEN "idle" ELSE "next",
                 !.items = its, !.k = 1, !.dyn_mode = dyn]]
    /\ UNCHANGED <<disk, bak, rules, hist, dvars, jvars>>

\* An error entry that ends the invocation.
Continue_Return(r, rec) == [r EXCEPT !.pc = "idle", !.results = Append(@, rec)]

\* results.append(rec); continue: the entry is recorded and the loop goes on
\* with the next item.
Continue(r, rec) == [r EXCEPT !.k = @ + 1, !.pc = "next", !.results = Append(@, rec)]

\* The head of the for loop, up to the existence test; the return after the
\* last item.
NextItem(p) ==
    LET r == run[p]
        done == r.k > Len(r.items)
        raw == r.items[r.k]
        abs_path == AbsPath(raw)
        skip == [r EXCEPT !.k = @ + 1]
    IN  /\ r.pc = "next"
        /\ run' = [run EXCEPT ![p] =
             IF done THEN [r EXCEPT !.pc = "idle"]
             ELSE IF raw = <<>> THEN skip
             ELSE IF abs_path \in r.seen THEN skip
             ELSE IF Content(disk, abs_path) = NoFile
             THEN Continue([r EXCEPT !.seen = @ \cup {abs_path}],
                           Rec(abs_path, FALSE, <<"skip">>,
                               <<Note("not_found", "", 0, <<>>)>>, <<>>))
             ELSE [r EXCEPT !.seen = @ \cup {abs_path}, !.abs_path = abs_path, !.pc = "read"]]
        /\ UNCHANGED <<disk, bak, rules, nruns, hist, dvars, jvars>>

\* open(abs_path, "r") and f.read(): the text, or an exception.
ReadFile(p) ==
    LET r == run[p]
    IN  /\ r.pc = "read"
        /\ \/ /\ Content(disk, r.abs_path) # NoFile
              /\ run' = [run EXCEPT ![p] = [r EXCEPT !.src = disk[r.abs_path], !.pc = "backup"]]
           \/ run' = [run EXCEPT ![p] =
                        Continue(r, Rec(r.abs_path, FALSE, <<"skip">>,
                                        <<Note("read_error", "", 0, <<>>)>>, <<>>))]
        /\ UNCHANGED <<disk, bak, rules, nruns, hist, dvars, jvars>>

\* if not os.path.exists(backup): shutil.copy2(abs_path, backup), inside
\* try/except-pass: the copy is made, or it raises and no backup is created.
Backup(p) ==
    LET r == run[p]
        f == r.abs_path
    IN  /\ r.pc = "backup"
        /\ run' = [run EXCEPT ![p] = [r EXCEPT !.pc = "compute"]]
        /\ IF bak[f] # NoFile THEN UNCHANGED <<bak, hist>>
           ELSE \/ /\ Content(disk, f) # NoFile
                   /\ bak' = [bak EXCEPT ![f] = disk[f]]
                   /\ UNCHANGED hist
                \/ /\ UNCHANGED bak
                   /\ hist' = [hist EXCEPT !.bak_failed = @ \cup {f}]
        /\ UNCHANGED <<disk, rules, nruns, dvars, jvars>>
\* "rules" in method, for a method text kept as its parts.
HasRules(method) == \E k \in 1..Len(method) : method[k] \in {"rules", "rules:none", "+rules"}

\* The notes of the Declarator as parts of the note text.
DynNotes(notes) ==
    [k \in 1..Len(notes) |-> Note("dyn", notes[k].style, Len(notes[k].names), notes[k].names)]

\* Steps 1 and 2 of fix_selected: the rules, then the Declarator.
RulesThenDyn(src, rs, abs_path, dyn_mode) ==
    LET style == InferStyle(src)
        r1 == ApplyRuleBasedFix(src, rs)
        method == IF r1.changed THEN <<"rules">> ELSE <<"rules:none">>
        d == FixDynamicPropertiesDeclare(r1.code, style)
    IN  IF dyn_mode = "declare" /\ EndsWithPhp(abs_path) /\ d.changed
        THEN [code |-> d.src, changed |-> TRUE,
              method |-> IF HasRules(method) THEN Append(method, "+dyn:declare")
                         ELSE <<"dyn:declare">>,
              note |-> r1.note \o DynNotes(d.notes)]
        ELSE [code |-> r1.code, changed |-> r1.changed, method |-> method, note |-> r1.note]

\* A fallback that is tried whatever the earlier steps did.
FallbackNeeded_Always(a) == TRUE

\* if not changed: the fallback is tried when steps 1 and 2 left changed false.
FallbackNeeded(a) == ~a.changed

\* Steps 1 to 3: the rules, the Declarator, and the fallback when neither
\* changed the text.
Compute(p) ==
    LET r == run[p]
        a == RulesThenDyn(r.src, rules, r.abs_path, r.dyn_mode)
    IN  /\ r.pc = "compute"
        /\ IF ~FallbackNeeded(a)
           THEN run' = [run EXCEPT ![p] = [r EXCEPT !.new_code = a.code,
                          !.changed = a.changed,
                          !.method = a.method, !.note = a.note, !.pc = "write"]]
           ELSE \E reply \in Replies(a.code) :
                  LET l == LlmFix(a.code, reply)
                  IN  run' = [run EXCEPT ![p] = [r EXCEPT !.new_code = l.code,
                                !.changed = IF l.changed THEN TRUE ELSE a.changed,
                                !.method = IF l.changed THEN <<"llm">> ELSE a.method,
                                !.note = IF l.changed THEN l.note ELSE a.note,
                                !.llm = Append(@, [file |-> r.abs_path, note |-> l.note,
                                                   raised |-> reply.kind = "raise"]),
                                !.pc = "write"]]
        /\ UNCHANGED <<disk, bak, rules, nruns, hist, dvars, jvars>>

\* The write back and the entry appended to results. open(abs_path, "w")
\* raises and leaves the file alone, or truncates it; f.write then stores
\* the text, or raises with the file left empty.
WriteBack(p) ==
    LET r == run[p]
        f == r.abs_path
        ok == [r EXCEPT !.k = @ + 1, !.pc = "next",
                 !.results = Append(@, Rec(f, r.changed, r.method, r.note, <<f>>))]
        failed == Continue(r, Rec(f, FALSE, r.method,
                                  <<Note("write_error", "", 0, <<>>)>>, <<f>>))
    IN  /\ r.pc = "write"
        /\ IF r.changed /\ r.new_code # r.src
           THEN \/ /\ disk' = [disk EXCEPT ![f] = r.new_code]
                   /\ run' = [run EXCEPT ![p] = ok]
                \/ /\ UNCHANGED disk
                   /\ run' = [run EXCEPT ![p] = failed]
                \/ /\ disk' = [disk EXCEPT ![f] = <<>>]
                   /\ run' = [run EXCEPT ![p] = failed]
           ELSE /\ UNCHANGED disk
                /\ run' = [run EXCEPT ![p] = ok]
        /\ UNCHANGED <<bak, rules, nruns, hist, dvars, jvars>>

\* Invocations of fix_selected one after the other.
Next ==
    \/ \E its \in ItemSeqs, dyn \in DynModes : FixSelectedCall(1, its, dyn)
    \/ NextItem(1)
    \/ ReadFile(1)
    \/ Backup(1)
    \/ Compute(1)
    \/ WriteBack(1)

Spec == Init /\ [][Next]_vars
\* ------------------------------------------------- fix_selected: claims
\* The invocation has returned its list.
Returned(p) == run[p].pc = "idle" /\ nruns > 0

\* The files an invocation left with a content other than the one it found.
ChangedByRun(p) == {f \in DOMAIN disk : disk[f] # run[p].pre[f]}

\* C1: after any run of fix_selected that changes a file F, F.bak exists and
\* holds the content F had before the first run that touched F (so a later
\* run that changes F again has not replaced it).
C1_BackupHoldsFirstContent ==
    Returned(1) => \A f \in ChangedByRun(1) : bak[f] = hist.disk0[f]

\* C2: every write of new content to a file F by fix_selected happens in a
\* state where F.bak exists, on every path, the one where the backup copy
\* raised included.
C2_WriteOnlyWithBackup ==
    [][\A f \in DOMAIN disk : disk'[f] # disk[f] => bak[f] # NoFile]_vars

\* C5: in every entry fix_selected returns, changed = true implies that the
\* file's content after the run differs from its content before the run.
C5_ChangedImpliesDiffers ==
    Returned(1) =>
        \A k \in 1..Len(run[1].results) :
            LET e == run[1].results[k]
            IN  e.changed => Content(disk, e.file) # Content(run[1].pre, e.file)

\* C6: in every entry fix_selected returns, changed = false implies that the
\* file's content after the run is identical to its content before the run.
C6_UnchangedImpliesIdentical ==
    Returned(1) =>
        \A k \in 1..Len(run[1].results) :
            LET e == run[1].results[k]
            IN  ~e.changed => Content(disk, e.file) = Content(run[1].pre, e.file)
\* ------------------------------------------------- agents.py: the Fixer
MaxCalls == 3

FileC == <<SEP, "proj", SEP, "c.txt">>
LegacyPaths == {FileA, FileB, FileC, FileGone}

\* file_path.endswith((".php", ".phtml", ".tpl")), on the last component.
EndsWithPhpLike(f) == f # <<>> /\ f[Len(f)] \in {"a.php", "b.tpl", "gone.php"}

\* A rule of the legacy Fixer as yaml.safe_load gives it; NoId marks a rule
\* without an "id" key.
NoId == "<no id>"

LegacyRules ==
    <<Rule("r1", <<Code("old")>>, <<Code("mid")>>, FALSE),
      Rule("r2", <<Code("mid")>>, <<Code("new")>>, FALSE),
      Rule("bad", <<Code("(")>>, <<>>, TRUE),
      Rule(NoId, <<Code("new")>>, <<Code("newer")>>, FALSE)>>

Keys == {"k", "j"}

\* _php_lint_file: php -l exits with 0, exits with another code, or cannot
\* be run (best effort: counted as passed).
LintOutcomes == {"pass", "fail", "raise"}
PhpLintFile(outcome) == outcome # "fail"

\* A revert that leaves the patched file as it is.
Revert_Skipped(d, b, f) == d

\* shutil.copyfile(path + ".bak", path): the file gets the backup's content.
Revert(d, b, f) == [d EXCEPT ![f] = b[f]]

\* The result of a call: the files, the backups, the pair returned, and
\* whether the patched text was written.
Outcome(d, b, ok, why, wrote) == [disk |-> d, bak |-> b, ok |-> ok, why |-> why, wrote |-> wrote]

\* Fixer._apply_rule_to_file(path, rule).
ApplyRuleToFile(d, b, path, rule, lint) ==
    IF Content(d, path) = NoFile \/ rule.bad THEN Outcome(d, b, FALSE, "error", FALSE)
    ELSE LET src == d[path]
             new == Subn(rule.search, rule.replace, src, 1).code
             b1 == [b EXCEPT ![path] = src]
             d1 == [d EXCEPT ![path] = new]
         IN  IF new # src
             THEN IF ~PhpLintFile(lint)
                  THEN Outcome(Revert(d1, b1, path), b1, FALSE, "lint failed; reverted", TRUE)
                  ELSE IF rule.id = NoId THEN Outcome(d1, b1, FALSE, "error", TRUE)
                  ELSE Outcome(d1, b1, TRUE, "patched", TRUE)
             ELSE Outcome(d, b, FALSE, "no change", FALSE)

\* Fixer._wrap_array_access_with_coalesce: every access to the key that is
\* not already followed by ?? is wrapped.
WrapArrayAccessWithCoalesce(src, key) ==
    [i \in 1..Len(src) |-> IF src[i] = Acc(key) THEN Coal(key) ELSE src[i]]

\* Fixer._apply_key_fix_to_file(file_path, key).
ApplyKeyFixToFile(d, b, path, key, lint) ==
    IF path = <<>> \/ Content(d, path) = NoFile
    THEN Outcome(d, b, FALSE, "file not found", FALSE)
    ELSE LET src == d[path]
             new == WrapArrayAccessWithCoalesce(src, key)
             b1 == [b EXCEPT ![path] = src]
             d1 == [d EXCEPT ![path] = new]
         IN  IF new # src
             THEN IF EndsWithPhpLike(path) /\ ~PhpLintFile(lint)
                  THEN Outcome(Revert(d1, b1, path), b1, FALSE, "lint failed; reverted", TRUE)
                  ELSE Outcome(d1, b1, TRUE, "coalesced", TRUE)
             ELSE Outcome(d, b, FALSE, "no change", FALSE)

\* The last call and what it returned; pre is the file's content at the call.
LastCall(op, path, pre, lint, out) ==
    [op |-> op, path |-> path, pre |-> pre, lint |-> lint,
     ok |-> out.ok, why |-> out.why, wrote |-> out.wrote]

LegacyContents ==
    { <<Code("old"), Acc("k"), NL>>, <<Acc("k"), Coal("j"), Acc("k"), NL>> }

LegacyInit ==
    /\ JobsQuiet
    /\ disk \in { [f \in LegacyPaths |-> IF f = FileGone THEN NoFile ELSE IF f = FileA THEN a ELSE c] :
                    a \in LegacyContents, c \in LegacyContents }
    /\ bak = [f \in LegacyPaths |-> NoFile]
    /\ rules = LegacyRules
    /\ run = LastCall("none", <<>>, NoFile, "pass", Outcome(disk, bak, FALSE, "", FALSE))
    /\ nruns = 0
    /\ hist = [disk0 |-> disk, bak_failed |-> {}]
    /\ DeclQuiet
    /\ PathsDeployed

LegacyReturn(op, path, lint, out) ==
    /\ disk' = out.disk
    /\ bak' = out.bak
    /\ run' = LastCall(op, path, Content(disk, path), lint, out)
    /\ nruns' = nruns + 1
    /\ UNCHANGED <<rules, hist, dvars, jvars>>

RuleCall(path, k, lint) ==
    /\ nruns < MaxCalls
    /\ LegacyReturn("rule", path, lint, ApplyRuleToFile(disk, bak, path, rules[k], lint))

KeyFixCall(path, key, lint) ==
    /\ nruns < MaxCalls
    /\ LegacyReturn("key", path, lint, ApplyKeyFixToFile(disk, bak, path, key, lint))

LegacyNext ==
    \/ \E path \in LegacyPaths, k \in 1..Len(rules), lint \in LintOutcomes : RuleCall(path, k, lint)
    \/ \E path \in LegacyPaths \cup {<<>>}, key \in Keys, lint \in LintOutcomes :
         KeyFixCall(path, key, lint)

SpecLegacy == LegacyInit /\ [][LegacyNext]_vars

\* -------------------------------------------------- legacy Fixer: claims
\* C3: the legacy Fixer never overwrites an existing backup: once F.bak
\* exists, no call of _apply_rule_to_file or _apply_key_fix_to_file changes
\* its content.
C3_BackupNeverOverwritten ==
    [][\A f \in DOMAIN bak : bak[f] # NoFile => bak'[f] = bak[f]]_vars

\* C4: when the lint fails after a call of _apply_rule_to_file or
\* _apply_key_fix_to_file has written the patched file, the file's content
\* on return equals its content before the call, and the call returns the
\* reverted, not fixed, outcome.
C4_LintFailureReverts ==
    (run.wrote /\ run.op = "rule" /\ ~PhpLintFile(run.lint))
    \/ (run.wrote /\ run.op = "key" /\ EndsWithPhpLike(run.path) /\ ~PhpLintFile(run.lint))
    => /\ disk[run.path] = run.pre
       /\ ~run.ok
       /\ run.why = "lint failed; reverted"

\* C4 witness: a call wrote the patched file, the lint failed, and the file
\* had been given another content by an earlier call.
C4_Witness_RevertedAfterEarlierPatch ==
    /\ run.wrote
    /\ ~PhpLintFile(run.lint)
    /\ run.why = "lint failed; reverted"
    /\ run.pre # hist.disk0[run.path]
    /\ disk[run.path] = run.pre
\* ------------------------------------- apply_rule_based_fix: the runs
MaxRules == 3

RulePool ==
    { Rule("r1", <<Code("old")>>, <<Code("mid")>>, FALSE),
      Rule("r2", <<Code("mid")>>, <<Code("new")>>, FALSE),
      Rule("r3", <<Code("new")>>, <<Code("new"), Code("old")>>, FALSE),
      Rule("bad", <<Code("(")>>, <<Code("new")>>, TRUE),
      Rule("empty", <<>>, <<Code("new")>>, FALSE) }

RuleLists == UNION { [1..n -> RulePool] : n \in 0..MaxRules }

RuleTexts ==
    { <<Code("old"), NL>>,
      <<Code("old"), Code("mid"), NL>>,
      <<Code("keep"), NL>>,
      <<Code("mid"), SP4, Code("old"), Code("old")>> }

RulesInit ==
    /\ JobsQuiet
    /\ dsrc \in RuleTexts
    /\ rules \in RuleLists
    /\ douts = <<>>
    /\ dstyle = [indent |-> "sp4", eol |-> "lf"]
    /\ disk = <<>>
    /\ bak = <<>>
    /\ run = <<>>
    /\ nruns = 0
    /\ hist = <<>>
    /\ penv = [kind |-> "absent", maps |-> <<>>]
    /\ path_maps = <<>>

RulesApply ==
    /\ douts = <<>>
    /\ douts' = <<ApplyRuleBasedFix(dsrc, rules)>>
    /\ UNCHANGED <<dsrc, dstyle, penv, path_maps, fvars, jvars>>

RulesNext == RulesApply

SpecRules == RulesInit /\ [][RulesNext]_vars

\* ------------------------------------- apply_rule_based_fix: claims
\* A rule the loop applies: it has a search text and the text compiles.
Usable(r) == r.search # <<>> /\ ~r.bad

\* rule_n(... rule_2(rule_1(src))): each usable rule applied, in list order,
\* to the text the rule before it produced.
RECURSIVE RefChain(_, _)
RefChain(text, rs) ==
    IF rs = <<>> THEN text
    ELSE RefChain(IF Usable(Head(rs))
                  THEN Subn(Head(rs).search, Head(rs).replace, text, 1).code
                  ELSE text,
                  Tail(rs))

HasNote(notes, tag, id) == \E k \in 1..Len(notes) : notes[k].tag = tag /\ notes[k].id = id

\* C11: apply_rule_based_fix applies the rules in list order to the
\* progressively updated text, so for rules 1 and 2 the result is
\* rule2(rule1(src)), rule 2 seeing what rule 1 produced.
C11_RulesApplyInOrder ==
    douts # <<>> => douts[1].code = RefChain(dsrc, rules)

\* C11 witness: two rules, the second with no match in the original text and
\* applied to a match the first one's replacement created.
C11_Witness_SecondSeesFirst ==
    /\ douts # <<>>
    /\ Len(rules) = 2
    /\ Usable(rules[1]) /\ Usable(rules[2])
    /\ Subn(rules[2].search, rules[2].replace, dsrc, 1).n = 0
    /\ HasNote(douts[1].note, "rule", rules[1].id)
    /\ HasNote(douts[1].note, "rule", rules[2].id)

\* The rule list without its k-th rule.
WithoutRule(rs, k) == SubSeq(rs, 1, k - 1) \o SubSeq(rs, k + 1, Len(rs))

\* C12: a rule whose search pattern does not compile is skipped: the text and
\* the changed flag are those of the list without that rule, the rules
\* before and after it are applied, and a bad_regex note names its id.
C12_BadRegexSkipped ==
    douts # <<>> =>
        \A k \in 1..Len(rules) :
            (rules[k].bad /\ rules[k].search # <<>>) =>
                LET rest == ApplyRuleBasedFix(dsrc, WithoutRule(rules, k))
                IN  /\ douts[1].code = rest.code
                    /\ douts[1].changed = rest.changed
                    /\ HasNote(douts[1].note, "bad_regex", rules[k].id)
                    /\ \A j \in 1..Len(rest.note) : HasNote(douts[1].note, rest.note[j].tag, rest.note[j].id)

\* C12 witness: a rule that does not compile stands between two rules that
\* both changed the text.
C12_Witness_BadBetweenApplied ==
    /\ douts # <<>>
    /\ Len(rules) = 3
    /\ rules[2].bad
    /\ Usable(rules[1]) /\ Usable(rules[3])
    /\ Len(douts[1].note) = 3
    /\ douts[1].note[1].tag = "rule"
    /\ douts[1].note[2].tag = "bad_regex"
    /\ douts[1].note[3].tag = "rule"
\* --------------------------------- fix_selected: claims on the stages
\* The Rule Engine alone changes the text src.
RulesChangeText(src) == ApplyRuleBasedFix(src, rules).code # src

\* The Declarator, where fix_selected runs it, changes the text the Rule
\* Engine hands to it for the file f with content src.
DeclaratorChangesText(f, src, dyn) ==
    LET mid == ApplyRuleBasedFix(src, rules).code
    IN  /\ dyn = "declare"
        /\ EndsWithPhp(f)
        /\ FixDynamicPropertiesDeclare(mid, InferStyle(src)).src # mid

\* C13: fix_selected calls the fallback for a file only if neither the Rule
\* Engine nor the Declarator changed that file's text.
C13_FallbackOnlyWhenUnchanged ==
    \A k \in 1..Len(run[1].llm) :
        LET f == run[1].llm[k].file
            src == run[1].pre[f]
        IN  ~RulesChangeText(src) /\ ~DeclaratorChangesText(f, src, run[1].dyn_mode)

\* C13 witness: the fallback was called for a .php file with a rule set
\* loaded and the Declarator switched on.
C13_Witness_FallbackAfterBothStages ==
    \E k \in 1..Len(run[1].llm) :
        /\ rules # <<>>
        /\ run[1].dyn_mode = "declare"
        /\ EndsWithPhp(run[1].llm[k].file)

\* C14: when the completion call raises, llm_fix returns the original code,
\* changed = false and a failure note; fix_selected leaves the file as it
\* found it, emits the file's entry with changed = false, and when it has
\* returned every item's file has its entry.
C14_FallbackFailureContained ==
    /\ \A k \in 1..Len(run[1].llm) :
         LET c == run[1].llm[k]
         IN  c.raised =>
               /\ c.note = <<Note("llm:error", "", 0, <<>>)>>
               /\ disk[c.file] = run[1].pre[c.file]
               /\ IF run[1].pc = "write" /\ run[1].abs_path = c.file
                  THEN run[1].new_code = run[1].src /\ ~run[1].changed
                  ELSE \E j \in 1..Len(run[1].results) :
                         run[1].results[j].file = c.file /\ ~run[1].results[j].changed
    /\ (Returned(1) /\ \E k \in 1..Len(run[1].llm) : run[1].llm[k].raised) =>
         \A i \in 1..Len(run[1].items) :
            run[1].items[i] # <<>> =>
               \E j \in 1..Len(run[1].results) : run[1].results[j].file = AbsPath(run[1].items[i])

\* C14 witness: the call raised for one file and the invocation went on to
\* record a later file and returned.
C14_Witness_RaisedThenNextFile ==
    /\ Returned(1)
    /\ \E k \in 1..Len(run[1].llm), j \in 1..Len(run[1].results) :
         /\ run[1].llm[k].raised
         /\ run[1].results[j].file = run[1].llm[k].file
         /\ j < Len(run[1].results)

\* C15: the method of an entry names the deepest stage that changed the
\* file: rules when only the Rule Engine did, rules and dyn:declare when both
\* did, dyn:declare alone, with no mention of rules, when only the
\* Declarator did, llm when only the fallback did, a skip or none value
\* otherwise.
C15_MethodNamesDeepestStage ==
    Returned(1) =>
        \A j \in 1..Len(run[1].results) :
            LET e == run[1].results[j]
                src == Content(run[1].pre, e.file)
                rc == ApplyRuleBasedFix(src, rules).changed
                dc == DeclaratorChangesText(e.file, src, run[1].dyn_mode)
            IN  IF e.method = <<"skip">> THEN e.backup = <<>>
                ELSE IF rc /\ dc THEN e.method = <<"rules", "+dyn:declare">>
                ELSE IF rc THEN e.method = <<"rules">>
                ELSE IF dc THEN e.method = <<"dyn:declare">>
                ELSE e.method \in {<<"llm">>, <<"rules:none">>}

\* The distinct files the items resolve to, in order of first occurrence.
RECURSIVE RefFirstSeen(_, _)
RefFirstSeen(items, acc) ==
    IF items = <<>> THEN acc
    ELSE LET it == Head(items)
             f == AbsPath(it)
         IN  IF it = <<>> \/ (\E j \in 1..Len(acc) : acc[j] = f)
             THEN RefFirstSeen(Tail(items), acc)
             ELSE RefFirstSeen(Tail(items), Append(acc, f))

IsErrorEntry(e) ==
    \/ e.method = <<"skip">>
    \/ e.note = <<Note("write_error", "", 0, <<>>)>>

\* C16: no error on one file ends a fix_selected run: whatever files are not
\* found, not readable or not writable, the list returned has exactly one
\* entry per distinct resolved file, in the order the files were first met.
C16_OneEntryPerFileInOrder ==
    Returned(1) =>
        [j \in 1..Len(run[1].results) |-> run[1].results[j].file] = RefFirstSeen(run[1].items, <<>>)

\* C16 witness: the first file's entry is an error entry and a later item's
\* file was still processed and recorded.
C16_Witness_ErrorThenLaterFile ==
    /\ Returned(1)
    /\ Len(run[1].results) = 2
    /\ IsErrorEntry(run[1].results[1])
    /\ ~IsErrorEntry(run[1].results[2])
\* ------------------------------------------- remap_host_path: the runs
MaxMaps == 2

\* Entries a PATH_MAPS list is made of; the last one lacks its "from".
MapPool ==
    { PathMap(<<SEP, "home", SEP, "app">>, <<SEP, "srv", SEP, "app">>),
      PathMap(<<SEP, "home">>, <<SEP, "mnt", SEP>>),
      PathMap(<<SEP, "home", SEP, "app", SEP, "x">>, <<SEP, "srv", SEP, "x", BSL>>),
      PathMap(<<SEP, "srv">>, <<SEP, "mnt">>),
      PathMap(<<>>, <<SEP, "mnt">>) }

Envs ==
    { [kind |-> "absent", maps |-> <<>>], [kind |-> "unparsable", maps |-> <<>>] }
    \cup { [kind |-> "list", maps |-> ms] : ms \in UNION { [1..n -> MapPool] : n \in 0..MaxMaps } }

PathInputs ==
    { <<>>,
      <<SEP, "home", SEP, "app", SEP, "x", SEP, "y.php">>,
      <<SEP, "other", SEP, "y.php">>,
      <<BSL, "home", BSL, "app", BSL, "x", DOT, "php">>,
      <<SEP, "home", SEP, "app", "lication", SEP, "x.php">>,
      <<SEP, "home", SEP, DOT, SEP, "app", SEP, DOT, DOT, SEP, "x.php">>,
      <<SEP, "home", SEP, "www-virtual", SEP, "kangoiryo.jp", SEP, "x.php">>,
      <<DOT, SEP, "sub", SEP, SEP, "a.php">> }

PathsInit ==
    /\ JobsQuiet
    /\ penv \in Envs
    /\ path_maps = LoadPathMaps(penv)
    /\ dsrc \in PathInputs
    /\ douts = <<>>
    /\ dstyle = [indent |-> "sp4", eol |-> "lf"]
    /\ disk = <<>>
    /\ bak = <<>>
    /\ rules = <<>>
    /\ run = <<>>
    /\ nruns = 0
    /\ hist = <<>>

RemapCall ==
    /\ douts = <<>>
    /\ douts' = <<RemapHostPath(dsrc)>>
    /\ UNCHANGED <<dsrc, dstyle, penv, path_maps, fvars, jvars>>

PathsNext == RemapCall

SpecPaths == PathsInit /\ [][PathsNext]_vars

\* ------------------------------------------ remap_host_path: the claims
\* The input as the prefixes are compared with it, and the entries of the
\* loaded map whose prefix it starts with.
Compared == ReplaceChar(dsrc, BSL, SEP)
PrefixOf(m) == ReplaceChar(RStripChars(m.from, {SEP}), BSL, SEP)
Matching == { k \in 1..Len(path_maps) : StartsWith(Compared, PrefixOf(path_maps[k])) }

\* The input with the prefix of m replaced by its "to" and the tail kept,
\* normalised.
Replaced(m) ==
    NormPath(RStripChars(m.to, {BSL, SEP})
             \o SubSeq(Compared, Len(PrefixOf(m)) + 1, Len(Compared)))

\* C17: after a call of remap_host_path on a non-empty path the result is
\* the input with the prefix of exactly one matching entry replaced by its
\* "to" and the tail kept, that entry having the longest "from" of all the
\* entries that match; when no entry matches, the result is the normalised
\* input (an empty input is returned as it is); and the path map is still
\* the one loaded from the configuration.
C17_LongestFromWins ==
    douts # <<>> =>
        /\ path_maps = LoadPathMaps(penv)
        /\ dsrc = <<>> => douts[1] = <<>>
        /\ (dsrc # <<>> /\ Matching = {}) => douts[1] = NormPath(dsrc)
        /\ (dsrc # <<>> /\ Matching # {}) =>
              \E k \in Matching :
                  /\ \A j \in Matching : StrLen(path_maps[j].from) <= StrLen(path_maps[k].from)
                  /\ douts[1] = Replaced(path_maps[k])

\* C17 witness: the configuration lists a shorter matching "from" before a
\* longer matching one, the two give different results, and the call
\* returned the longer one's.
C17_Witness_ShorterListedFirst ==
    /\ douts # <<>>
    /\ penv.kind = "list"
    /\ Len(penv.maps) = 2
    /\ Cardinality(Matching) = 2
    /\ StrLen(penv.maps[1].from) < StrLen(penv.maps[2].from)
    /\ Replaced(penv.maps[1]) # Replaced(penv.maps[2])
    /\ douts[1] = Replaced(penv.maps[2])

\* C17 witness of the other case: entries are configured, none matches, and
\* the normalised input differs from the input.
C17_Witness_NoMatchNormalised ==
    /\ douts # <<>>
    /\ dsrc # <<>>
    /\ path_maps # <<>>
    /\ Matching = {}
    /\ douts[1] # dsrc

\* C18: when PATH_MAPS is absent, unparsable or an empty list, the path map
\* is empty and a call of remap_host_path returns the normalised input.
C18_NoConfigurationIsIdentity ==
    (penv.kind \in {"absent", "unparsable"} \/ penv.maps = <<>>) =>
        /\ path_maps = <<>>
        /\ (douts # <<>> /\ dsrc # <<>>) => douts[1] = NormPath(dsrc)

\* C18, the part on the result alone: without a configuration a call returns
\* the normalised input.
C18_ResultIsNormalisedInput ==
    ((penv.kind \in {"absent", "unparsable"} \/ penv.maps = <<>>) /\ douts # <<>> /\ dsrc # <<>>)
        => douts[1] = NormPath(dsrc)

\* ------------------------------------------------ extract_php_targets
\* The text is a sequence of messages, one per line, each naming a path and
\* a line number in one of these forms:
\*   markup         <b>Notice</b>: bad key in <b>P</b> on line <b>N</b><br />
\*   plain_in       Notice: bad key in P on line N
\*   plain_at       #0 thrown at P line N
\*   quoted_entity  Message: bad key in &quot;P&quot; on line N
\*   quoted         Message: bad key in "P" on line N
Occ(form, path, line) == [form |-> form, path |-> path, line |-> line]

\* s.replace("&quot;", '"') and the two replacements of the escaped <br>:
\* of the forms above only the entity-quoted one holds such a text.
Unescape(text) ==
    [i \in 1..Len(text) |->
        IF text[i].form = "quoted_entity" THEN [text[i] EXCEPT !.form = "quoted"] ELSE text[i]]

\* The head of a path the second pattern asks for: "/" or a drive letter
\* and a backslash.
StartsRooted(p) == p # <<>> /\ (p[1] = SEP \/ (Len(p) >= 2 /\ p[1] = "D:" /\ p[2] = BSL))

\* Whether _PATH_RES[k] matches a message: the first pattern wants "in",
\* the path bare or in <b>, and "on line"; the second wants "in" or "at",
\* white space, a rooted bare path, and "line" with or without "on". A
\* quote before the path fits neither.
PatternMatches(k, o) ==
    IF k = 1 THEN o.form \in {"markup", "plain_in"}
    ELSE o.form \in {"plain_in", "plain_at"} /\ StartsRooted(o.path)

\* for m in rx.finditer(s): the (path, line) pairs appended for pattern k,
\* from message i on.
RECURSIVE FindIter(_, _, _)
FindIter(k, text, i) ==
    IF i > Len(text) THEN <<>>
    ELSE (IF PatternMatches(k, text[i]) /\ text[i].path # <<>>
          THEN << <<text[i].path, text[i].line>> >> ELSE <<>>)
         \o FindIter(k, text, i + 1)

\* The loop over out that keeps the first pair of each (normpath(p), ln).
RECURSIVE Uniq(_, _, _)
Uniq(out, i, seen) ==
    IF i > Len(out) THEN <<>>
    ELSE LET key == <<NormPath(out[i][1]), out[i][2]>>
         IN  IF key \in seen THEN Uniq(out, i + 1, seen)
             ELSE <<out[i]>> \o Uniq(out, i + 1, seen \cup {key})

ExtractPhpTargets(html_or_text) ==
    IF html_or_text = <<>> THEN <<>>
    ELSE LET s == Unescape(html_or_text)
         IN  Uniq(FindIter(1, s, 1) \o FindIter(2, s, 1), 1, {})

\* ------------------------------------- extract_php_targets: the runs
MaxOccs == 3

OccForms == {"markup", "plain_in", "plain_at", "quoted_entity"}
OccPaths == { FileA, <<SEP, "proj", SEP, DOT, SEP, "a.php">>, FileB, <<"a.php">> }
OccLines == {3, 5}
Occs == { Occ(f, p, n) : f \in OccForms, p \in OccPaths, n \in OccLines }
Texts == UNION { [1..n -> Occs] : n \in 0..MaxOccs }

TargetsInit ==
    /\ JobsQuiet
    /\ dsrc \in Texts
    /\ douts = <<>>
    /\ dstyle = [indent |-> "sp4", eol |-> "lf"]
    /\ penv = [kind |-> "absent", maps |-> <<>>]
    /\ path_maps = <<>>
    /\ disk = <<>>
    /\ bak = <<>>
    /\ rules = <<>>
    /\ run = <<>>
    /\ nruns = 0
    /\ hist = <<>>

ExtractCall ==
    /\ douts = <<>>
    /\ douts' = <<ExtractPhpTargets(dsrc)>>
    /\ UNCHANGED <<dsrc, dstyle, penv, path_maps, fvars, jvars>>

TargetsNext == ExtractCall

SpecTargets == TargetsInit /\ [][TargetsNext]_vars

\* ------------------------------------ extract_php_targets: the claims
TargetKey(e) == <<NormPath(e[1]), e[2]>>

\* The messages of the text either pattern matches, and the keys
\* (normalised path, line) they name, each key once, in the order in which
\* the text first names it.
Located(o) == PatternMatches(1, o) \/ PatternMatches(2, o)

RECURSIVE FirstNamed(_, _, _)
FirstNamed(text, i, seen) ==
    IF i > Len(text) THEN <<>>
    ELSE LET key == <<NormPath(text[i].path), text[i].line>>
         IN  IF ~Located(text[i]) \/ key \in seen THEN FirstNamed(text, i + 1, seen)
             ELSE <<key>> \o FirstNamed(text, i + 1, seen \cup {key})

\* C19: the entries extract_php_targets returns have pairwise different
\* (normalised path, line) keys, and their keys are those of the located
\* messages, each once, in the order of their first occurrence in the text,
\* whichever pattern located them.
C19_DistinctInTextOrder ==
    douts # <<>> =>
        LET r == douts[1]
        IN  /\ \A i, j \in 1..Len(r) : i # j => TargetKey(r[i]) # TargetKey(r[j])
            /\ [i \in 1..Len(r) |-> TargetKey(r[i])] = FirstNamed(Unescape(dsrc), 1, {})

\* C19, the parts that do not depend on the order: keys pairwise different,
\* and the set of keys returned is the set of keys the text names.
C19_DistinctAndComplete ==
    douts # <<>> =>
        LET r == douts[1]
            named == FirstNamed(Unescape(dsrc), 1, {})
        IN  /\ \A i, j \in 1..Len(r) : i # j => TargetKey(r[i]) # TargetKey(r[j])
            /\ {TargetKey(r[i]) : i \in 1..Len(r)} = {named[i] : i \in 1..Len(named)}

\* C19, the order when one pattern alone locates messages: with no message
\* only the second pattern matches, the keys are in text order.
C19_TextOrderWithinFirstPattern ==
    (douts # <<>> /\ \A i \in 1..Len(dsrc) : Located(dsrc[i]) => PatternMatches(1, dsrc[i])) =>
        [i \in 1..Len(douts[1]) |-> TargetKey(douts[1][i])] = FirstNamed(Unescape(dsrc), 1, {})

\* ------------------------------------------------- the job service (app.py)
\* One job, one worker thread (run_test_job) and one thread serving the
\* requests. A "with JOBS_LOCK:" block is a step that takes the lock, one
\* step per statement of the block, the last of them giving the lock back.
MaxEndpoints == 2

JobId == 1
JobFiles == {FileA, FileB}

\* A job record. inited: the keys run_test_job adds are present. The
\* "errors" and "errors_by_file" values are references: to a dict of the
\* record's own, or to the worker's error_buckets / error_files.
NoJob ==
    [exists |-> FALSE, inited |-> FALSE, status |-> "none", progress |-> 0, total |-> 0,
     summary |-> [passed |-> 0, failed |-> 0], errors |-> "own", errors_by_file |-> "own",
     targets |-> [f \in JobFiles |-> 0], needs_confirmation |-> FALSE, fixes |-> <<>>,
     report_path |-> FALSE]

\* The locals of the worker and of the request thread.
WorkerOff ==
    [pc |-> "off", endpoints |-> 0, idx |-> 0, todo |-> <<>>, note |-> FALSE, passed |-> 0,
     failed |-> 0,
     error_buckets |-> 0, error_files |-> [f \in JobFiles |-> 0]]

HandlerIdle ==
    [pc |-> "idle", has |-> FALSE, items |-> <<>>, filtered |-> <<>>, results |-> <<>>,
     size0 |-> 0, n |-> 0, resp |-> "none"]

\* The fields of the job record, and the nested dicts _safe walks through.
TopFields ==
    {"status", "progress", "total", "summary", "errors", "errors_by_file", "targets",
     "needs_confirmation", "fixes", "report_path", "project_root", "context_html"}
NestedFields == {"summary", "errors", "errors_by_file"}

NoAccess == [by |-> "none", fields |-> {}, write |-> FALSE, held |-> TRUE]

\* The record of an access by thread t made by the step under way.
Access(t, fields, write) == [by |-> t, fields |-> fields, write |-> write, held |-> JOBS_LOCK = t]

\* len(job["targets"]).
Size(targets) == Cardinality({f \in JobFiles : targets[f] > 0})

JobsInit ==
    /\ JOBS = [j \in {JobId} |-> NoJob]
    /\ JOBS_LOCK = "free"
    /\ thr = [w |-> WorkerOff, h |-> HandlerIdle]
    /\ access = NoAccess
    /\ FsQuiet
    /\ DeclQuiet

\* "with JOBS_LOCK:" entered by thread t at position from.
Acquire(t, from, to) ==
    /\ thr[t].pc = from
    /\ JOBS_LOCK = "free"
    /\ JOBS_LOCK' = t
    /\ thr' = [thr EXCEPT ![t].pc = to]
    /\ access' = NoAccess
    /\ UNCHANGED <<JOBS, dvars, fvars>>

\* ---- run_test_job
W_UpdateLock == Acquire("w", "w_init", "w_update")

\* JOBS[job_id].update({...}).
W_Update ==
    /\ thr.w.pc = "w_update"
    /\ JOBS' = [JOBS EXCEPT ![JobId] =
                  [@ EXCEPT !.inited = TRUE, !.status = "running", !.progress = 0,
                            !.total = thr.w.endpoints,
                            !.summary = [passed |-> 0, failed |-> 0], !.errors = "own",
                            !.errors_by_file = "own", !.targets = [f \in JobFiles |-> 0],
                            !.needs_confirmation = FALSE, !.fixes = <<>>,
                            !.report_path = FALSE]]
    /\ access' = Access("w", TopFields, TRUE)
    /\ JOBS_LOCK' = "free"
    /\ thr' = [thr EXCEPT !.w.pc = "w_page", !.w.idx = 1]
    /\ UNCHANGED <<dvars, fvars>>

\* The pages an endpoint can give: the targets extract_php_targets finds in
\* it, and whether a note was made of an error.
Pages ==
    { [targets |-> <<>>, note |-> FALSE], [targets |-> <<>>, note |-> TRUE],
      [targets |-> <<FileA>>, note |-> TRUE], [targets |-> <<FileA, FileB>>, note |-> TRUE] }

\* One endpoint loaded and examined, or an exception raised on the way.
W_Page ==
    /\ thr.w.pc = "w_page"
    /\ \/ \E pg \in Pages :
             thr' = [thr EXCEPT !.w.todo = pg.targets, !.w.note = pg.note,
                                !.w.pc = IF pg.targets # <<>> THEN "w_tgt_lock" ELSE "w_count"]
       \/ thr' = [thr EXCEPT !.w.pc = "w_err_lock"]
    /\ access' = NoAccess
    /\ UNCHANGED <<JOBS, JOBS_LOCK, dvars, fvars>>

W_TargetsLock == Acquire("w", "w_tgt_lock", "w_tgt")

\* One turn of "for php_path, line in targets": tgt[abs_path] = rec and
\* error_files[label] += 1, the latter being the job's errors_by_file once
\* the record refers to it.
W_TargetsInsert ==
    /\ thr.w.pc = "w_tgt"
    /\ thr.w.todo # <<>>
    /\ LET f == Head(thr.w.todo)
       IN  /\ JOBS' = [JOBS EXCEPT ![JobId].targets[f] = @ + 1]
           /\ thr' = [thr EXCEPT !.w.todo = Tail(@), !.w.error_files[f] = @ + 1]
    /\ access' = Access("w", {"targets"} \cup (IF JOBS[JobId].errors_by_file = "error_files"
                                               THEN {"errors_by_file"} ELSE {}), TRUE)
    /\ UNCHANGED <<JOBS_LOCK, dvars, fvars>>

\* JOBS[job_id]["needs_confirmation"] = True, the end of the block.
W_TargetsFlag ==
    /\ thr.w.pc = "w_tgt"
    /\ thr.w.todo = <<>>
    /\ JOBS' = [JOBS EXCEPT ![JobId].needs_confirmation = TRUE]
    /\ access' = Access("w", {"needs_confirmation"}, TRUE)
    /\ JOBS_LOCK' = "free"
    /\ thr' = [thr EXCEPT !.w.pc = "w_count"]
    /\ UNCHANGED <<dvars, fvars>>

\* passed += 1, or failed += 1 and error_buckets[note] += 1: outside any
\* block, and a write to the job's errors once the record refers to
\* error_buckets.
W_Count ==
    /\ thr.w.pc = "w_count"
    /\ IF thr.w.note
       THEN /\ thr' = [thr EXCEPT !.w.failed = @ + 1, !.w.error_buckets = @ + 1,
                                  !.w.pc = "w_prog_lock"]
            /\ access' = IF JOBS[JobId].errors = "error_buckets"
                         THEN Access("w", {"errors"}, TRUE) ELSE NoAccess
       ELSE /\ thr' = [thr EXCEPT !.w.passed = @ + 1, !.w.pc = "w_prog_lock"]
            /\ access' = NoAccess
    /\ UNCHANGED <<JOBS, JOBS_LOCK, dvars, fvars>>

W_ProgressLock == Acquire("w", "w_prog_lock", "w_prog")

\* progress, summary, errors and errors_by_file stored; the last two store
\* the worker's own dicts, not copies of them.
W_Progress ==
    /\ thr.w.pc = "w_prog"
    /\ JOBS' = [JOBS EXCEPT ![JobId] =
                  [@ EXCEPT !.progress = thr.w.idx,
                            !.summary = [passed |-> thr.w.passed, failed |-> thr.w.failed],
                            !.errors = "error_buckets", !.errors_by_file = "error_files"]]
    /\ access' = Access("w", {"progress", "summary", "errors", "errors_by_file"}, TRUE)
    /\ JOBS_LOCK' = "free"
    /\ thr' = IF thr.w.idx < thr.w.endpoints
              THEN [thr EXCEPT !.w.idx = @ + 1, !.w.pc = "w_page"]
              ELSE [thr EXCEPT !.w.pc = "w_report"]
    /\ UNCHANGED <<dvars, fvars>>

\* write_with_images_fit: the report written, or an exception.
W_Report ==
    /\ thr.w.pc = "w_report"
    /\ \/ thr' = [thr EXCEPT !.w.pc = "w_done_lock"]
       \/ thr' = [thr EXCEPT !.w.pc = "w_err_lock"]
    /\ access' = NoAccess
    /\ UNCHANGED <<JOBS, JOBS_LOCK, dvars, fvars>>

W_DoneLock == Acquire("w", "w_done_lock", "w_done")

\* JOBS[job_id]["status"] = "done", the first statement of the block.
W_Done ==
    /\ thr.w.pc = "w_done"
    /\ JOBS' = [JOBS EXCEPT ![JobId].status = "done"]
    /\ access' = Access("w", {"status"}, TRUE)
    /\ thr' = [thr EXCEPT !.w.pc = "w_done_report"]
    /\ UNCHANGED <<JOBS_LOCK, dvars, fvars>>

\* JOBS[job_id]["report_path"] = report_path and the context_html after it,
\* the end of the block.
W_DoneReport ==
    /\ thr.w.pc = "w_done_report"
    /\ JOBS' = [JOBS EXCEPT ![JobId].report_path = TRUE]
    /\ access' = Access("w", {"report_path", "context_html"}, TRUE)
    /\ JOBS_LOCK' = "free"
    /\ thr' = [thr EXCEPT !.w.pc = "w_end"]
    /\ UNCHANGED <<dvars, fvars>>

W_ErrorLock == Acquire("w", "w_err_lock", "w_err")

W_Error ==
    /\ thr.w.pc = "w_err"
    /\ JOBS' = [JOBS EXCEPT ![JobId].status = "error"]
    /\ access' = Access("w", {"status", "error_msg"}, TRUE)
    /\ JOBS_LOCK' = "free"
    /\ thr' = [thr EXCEPT !.w.pc = "w_end"]
    /\ UNCHANGED <<dvars, fvars>>

\* ---- the request handlers
\* The item lists a fix request can carry.
FixItems == { <<FileA>>, <<FileGone, FileB>> }

\* A request taken up: its handler starts; n is the number of endpoints a
\* /run-test request names.
H_Request ==
    /\ thr.h.pc = "idle"
    /\ \/ /\ ~JOBS[JobId].exists
          /\ \E n \in 1..MaxEndpoints :
                thr' = [thr EXCEPT !.h = [HandlerIdle EXCEPT !.pc = "rt_lock", !.n = n]]
       \/ \E first \in {"st_lock", "dl_lock", "tg_lock"} :
             thr' = [thr EXCEPT !.h = [HandlerIdle EXCEPT !.pc = first]]
       \/ \E its \in FixItems :
             thr' = [thr EXCEPT !.h = [HandlerIdle EXCEPT !.pc = "fx_lock", !.items = its]]
    /\ access' = NoAccess
    /\ UNCHANGED <<JOBS, JOBS_LOCK, dvars, fvars>>

\* The end of a handler: the response is sent.
Respond(r) == [thr EXCEPT !.h.pc = "idle", !.h.resp = r]

\* "with JOBS_LOCK: data = JOBS.get(job_id)" of the four handlers that look
\* a job up: the record itself is handed out, not a copy.
H_Get(from, to) ==
    /\ thr.h.pc = from
    /\ thr' = [thr EXCEPT !.h.has = JOBS[JobId].exists, !.h.pc = to]
    /\ access' = Access("h", {"JOBS"}, FALSE)
    /\ JOBS_LOCK' = "free"
    /\ UNCHANGED <<JOBS, dvars, fvars>>

\* A step of a handler that reads fields of the record it was handed.
H_Read(from, fields, after) ==
    /\ thr.h.pc = from
    /\ thr' = after
    /\ access' = Access("h", fields, FALSE)
    /\ UNCHANGED <<JOBS, JOBS_LOCK, dvars, fvars>>

\* -- run_test
RT_Lock == Acquire("h", "rt_lock", "rt_put")

RT_Put ==
    /\ thr.h.pc = "rt_put"
    /\ JOBS' = [JOBS EXCEPT ![JobId] = [NoJob EXCEPT !.exists = TRUE, !.status = "queued",
                                                     !.total = thr.h.n]]
    /\ access' = Access("h", {"JOBS"}, TRUE)
    /\ JOBS_LOCK' = "free"
    /\ thr' = [thr EXCEPT !.h.pc = "rt_start"]
    /\ UNCHANGED <<dvars, fvars>>

\* t.start(): the worker begins.
RT_Start ==
    /\ thr.h.pc = "rt_start"
    /\ thr' = [Respond("ok") EXCEPT !.w.pc = "w_init", !.w.endpoints = thr.h.n]
    /\ access' = NoAccess
    /\ UNCHANGED <<JOBS, JOBS_LOCK, dvars, fvars>>

\* -- job_status
ST_Lock == Acquire("h", "st_lock", "st_get")
ST_Get == H_Get("st_get", "st_copy")

ST_NotFound ==
    /\ thr.h.pc = "st_copy"
    /\ ~thr.h.has
    /\ thr' = Respond("404")
    /\ access' = NoAccess
    /\ UNCHANGED <<JOBS, JOBS_LOCK, dvars, fvars>>

\* resp = dict(data).
ST_Copy == thr.h.has /\ H_Read("st_copy", TopFields, [thr EXCEPT !.h.pc = "st_safe"])

\* resp = _safe(resp): the nested dicts are walked through.
ST_Safe ==
    H_Read("st_safe", IF JOBS[JobId].inited THEN NestedFields ELSE {},
           [thr EXCEPT !.h.pc = "st_report"])

\* data.get("report_path").
ST_Report == H_Read("st_report", {"report_path"}, Respond("ok"))

\* -- job_download
DL_Lock == Acquire("h", "dl_lock", "dl_get")
DL_Get == H_Get("dl_get", "dl_read")

DL_NotFound ==
    /\ thr.h.pc = "dl_read"
    /\ ~thr.h.has
    /\ thr' = Respond("404")
    /\ access' = NoAccess
    /\ UNCHANGED <<JOBS, JOBS_LOCK, dvars, fvars>>

DL_Read ==
    /\ thr.h.has
    /\ H_Read("dl_read", {"status", "report_path"},
              Respond(IF JOBS[JobId].status = "done" /\ JOBS[JobId].report_path
                      THEN "ok" ELSE "404"))

\* -- job_targets
TG_Lock == Acquire("h", "tg_lock", "tg_get")
TG_Get == H_Get("tg_get", "tg_items")

TG_NotFound ==
    /\ thr.h.pc = "tg_items"
    /\ ~thr.h.has
    /\ thr' = Respond("404")
    /\ access' = NoAccess
    /\ UNCHANGED <<JOBS, JOBS_LOCK, dvars, fvars>>

\* (job.get("targets") or {}).items(): the iterator notes the size of the
\* dict it goes over.
TG_Items ==
    /\ thr.h.has
    /\ H_Read("tg_items", {"targets"},
              [thr EXCEPT !.h.size0 = Size(JOBS[JobId].targets), !.h.n = 0, !.h.pc = "tg_next"])

\* One turn of the for loop: the iterator raises RuntimeError when the dict
\* has changed size since it was made; the loop ends when it is exhausted.
TG_Next ==
    /\ thr.h.pc = "tg_next"
    /\ thr.h.n < thr.h.size0 \/ Size(JOBS[JobId].targets) # thr.h.size0
    /\ H_Read("tg_next", {"targets"},
              IF Size(JOBS[JobId].targets) # thr.h.size0 THEN Respond("RuntimeError")
              ELSE [thr EXCEPT !.h.n = @ + 1])

\* bool(job.get("needs_confirmation")) after the loop.
TG_Flag ==
    /\ thr.h.n = thr.h.size0
    /\ Size(JOBS[JobId].targets) = thr.h.size0
    /\ H_Read("tg_next", {"needs_confirmation"}, Respond("ok"))

\* -- job_fix
FX_Lock == Acquire("h", "fx_lock", "fx_get")
FX_Get == H_Get("fx_get", "fx_read")

FX_NotFound ==
    /\ thr.h.pc = "fx_read"
    /\ ~thr.h.has
    /\ thr' = Respond("404")
    /\ access' = NoAccess
    /\ UNCHANGED <<JOBS, JOBS_LOCK, dvars, fvars>>

\* The items whose file is a key of the job's targets.
RECURSIVE Allowed(_, _)
Allowed(items, targets) ==
    IF items = <<>> THEN <<>>
    ELSE (IF Head(items) \in JobFiles /\ targets[Head(items)] > 0 THEN <<Head(items)>> ELSE <<>>)
         \o Allowed(Tail(items), targets)

\* project_root, context_html and the keys of targets read, the items
\* filtered; "no valid items" when none is left.
FX_Read ==
    /\ thr.h.has
    /\ LET filtered == Allowed(thr.h.items, JOBS[JobId].targets)
       IN  H_Read("fx_read", {"project_root", "context_html", "targets"},
                  IF filtered = <<>> THEN Respond("400")
                  ELSE [thr EXCEPT !.h.filtered = filtered, !.h.pc = "fx_run"])

\* results = fix_selected(...): one entry per item; what the call does to
\* the files is the subject of Spec.
FX_Run ==
    /\ thr.h.pc = "fx_run"
    /\ thr' = [thr EXCEPT !.h.results = thr.h.filtered, !.h.pc = "fx_lock2"]
    /\ access' = NoAccess
    /\ UNCHANGED <<JOBS, JOBS_LOCK, dvars, fvars>>

FX_Lock2 == Acquire("h", "fx_lock2", "fx_extend")

\* (job.get("fixes") or []).extend(results): an empty list is replaced by a
\* new one, which is extended and dropped.
FX_Extend ==
    /\ thr.h.pc = "fx_extend"
    /\ JOBS' = [JOBS EXCEPT ![JobId].fixes = IF @ # <<>> THEN @ \o thr.h.results ELSE @]
    /\ access' = Access("h", {"fixes"}, JOBS[JobId].fixes # <<>>)
    /\ thr' = [thr EXCEPT !.h.pc = "fx_flag"]
    /\ UNCHANGED <<JOBS_LOCK, dvars, fvars>>

\* job["needs_confirmation"] = False, the end of the block.
FX_Flag ==
    /\ thr.h.pc = "fx_flag"
    /\ JOBS' = [JOBS EXCEPT ![JobId].needs_confirmation = FALSE]
    /\ access' = Access("h", {"needs_confirmation"}, TRUE)
    /\ JOBS_LOCK' = "free"
    /\ thr' = Respond("ok")
    /\ UNCHANGED <<dvars, fvars>>

JobsNext ==
    \/ W_UpdateLock \/ W_Update \/ W_Page \/ W_TargetsLock \/ W_TargetsInsert \/ W_TargetsFlag
    \/ W_Count \/ W_ProgressLock \/ W_Progress \/ W_Report \/ W_DoneLock \/ W_Done
    \/ W_DoneReport
    \/ W_ErrorLock \/ W_Error
    \/ H_Request
    \/ RT_Lock \/ RT_Put \/ RT_Start
    \/ ST_Lock \/ ST_Get \/ ST_NotFound \/ ST_Copy \/ ST_Safe \/ ST_Report
    \/ DL_Lock \/ DL_Get \/ DL_NotFound \/ DL_Read
    \/ TG_Lock \/ TG_Get \/ TG_NotFound \/ TG_Items \/ TG_Next \/ TG_Flag
    \/ FX_Lock \/ FX_Get \/ FX_NotFound \/ FX_Read \/ FX_Run \/ FX_Lock2 \/ FX_Extend \/ FX_Flag

SpecJobs == JobsInit /\ [][JobsNext]_vars

\* ------------------------------------------------ the job service: claims
\* Positions at which the next step of the request thread reads fields of
\* the job record, and positions at which the next step of the worker
\* writes them.
HandlerReads(pc) ==
    CASE pc = "st_copy" -> TopFields
      [] pc = "st_safe" -> NestedFields
      [] pc = "st_report" -> {"report_path"}
      [] pc = "dl_read" -> {"status", "report_path"}
      [] pc = "tg_items" -> {"targets"}
      [] pc = "tg_next" -> {"targets", "needs_confirmation"}
      [] pc = "fx_read" -> {"project_root", "context_html", "targets"}
      [] OTHER -> {}

WorkerWrites(pc) ==
    CASE pc = "w_update" -> TopFields
      [] pc = "w_tgt" -> {"targets", "needs_confirmation", "errors_by_file"}
      [] pc = "w_count" -> {"errors"}
      [] pc = "w_prog" -> {"progress", "summary", "errors", "errors_by_file"}
      [] pc = "w_done" -> {"status"}
      [] pc = "w_done_report" -> {"report_path", "context_html"}
      [] pc = "w_err" -> {"status", "error_msg"}
      [] OTHER -> {}

\* C20: every access to JOBS or to a job record is made by a thread that
\* holds JOBS_LOCK, and the request thread is never about to read fields of
\* a record it was handed while the worker is about to write one of them.
C20_EveryAccessUnderLock ==
    /\ access.held
    /\ ~(thr.h.has /\ HandlerReads(thr.h.pc) \cap WorkerWrites(thr.w.pc) # {})

\* C20, the writes of the worker alone: each is made under the lock.
C20_WorkerWritesUnderLock == access.by = "w" => access.held

\* C20, what the handler of /targets meets: the dict changes size under its
\* iterator.
C20_IterationUndisturbed == thr.h.resp # "RuntimeError"

\* --------------------------------- _iter_class_regions, one turn at a time
\* The scan as the loops run it: run holds the generator's position, the
\* match under way (k-th of opens), the loop variables i, depth, the lexical
\* mode (the one of in_sq, in_dq, in_line, in_block, in_here that is set, or
\* "n") and here_tag, the regions yielded so far and, for each match, how its
\* loop ended.
MaxScanSegs == 2

\* What follows the body: the class closed, alone or before a second class
\* (closed or not), or the class left open in one of the ways a text can be
\* cut or damaged.
ScanTails ==
    { <<RB>>,
      <<RB, NL, Cls("B"), LB, This("foo"), RB, NL>>,
      <<RB, NL, Cls("B"), LB, This("foo"), NL>>,
      <<>>,
      <<LB, RB>>,
      <<BO, RB>>,
      <<SQ, RB>>,
      <<Tok("here", "", "T"), NL, RB>>,
      <<NL, Cls("B"), LB, This("foo"), RB, NL>> }

ScanTexts ==
    {<<Cls("A"), LB>> \o b \o t : b \in UNION {BodiesOf(k) : k \in 0..MaxScanSegs}, t \in ScanTails}

\* One turn of "while i < n and depth > 0" that never moves on inside a
\* single-quoted string.
LoopBody_StuckInString(src, st) == IF st.mode = "sq" THEN st ELSE [st EXCEPT !.i = @ + 1]

\* One turn of "while i < n and depth > 0" (lines 213-241) on the loop
\* variables st.
LoopBody(src, st) ==
    LET i == st.i
        k == Kind(src[i])
    IN  CASE st.mode = "here" ->
               [st EXCEPT !.i = i + 1,
                          !.mode = IF k = "nl" /\ HereEnds(src, i + 1, st.tag) THEN "n" ELSE "here"]
          [] st.mode = "line" -> [st EXCEPT !.i = i + 1, !.mode = IF k = "nl" THEN "n" ELSE "line"]
          [] st.mode = "block" ->
               [st EXCEPT !.i = i + 1, !.mode = IF k \in {"bc", "doc"} THEN "n" ELSE "block"]
          [] st.mode = "sq" ->
               [st EXCEPT !.i = i + 1,
                          !.mode = IF k = "sq" /\ QuoteCloses(src, i) THEN "n" ELSE "sq"]
          [] st.mode = "dq" ->
               [st EXCEPT !.i = i + 1,
                          !.mode = IF k = "dq" /\ QuoteCloses(src, i) THEN "n" ELSE "dq"]
          [] OTHER ->
               CASE k = "sq" -> [st EXCEPT !.i = i + 1, !.mode = "sq"]
                 [] k = "dq" -> [st EXCEPT !.i = i + 1, !.mode = "dq"]
                 [] k = "lc" -> [st EXCEPT !.i = i + 1, !.mode = "line"]
                 [] k = "bo" -> [st EXCEPT !.i = i + 1, !.mode = "block"]
                 [] k = "lb" -> [st EXCEPT !.i = i + 1, !.depth = @ + 1]
                 [] k = "rb" -> [st EXCEPT !.i = i + 1, !.depth = @ - 1]
                 [] k = "here" -> [st EXCEPT !.i = i + 1, !.mode = "here", !.tag = src[i][3]]
                 [] OTHER -> [st EXCEPT !.i = i + 1]

ScanIdle ==
    [pc |-> "match", opens |-> <<>>, k |-> 0, open_idx |-> 0, i |-> 0, depth |-> 0,
     mode |-> "n", tag |-> "", regions |-> <<>>, ends |-> <<>>]

ScanInit ==
    /\ JobsQuiet
    /\ dsrc \in ScanTexts
    /\ dstyle = [indent |-> "sp4", eol |-> "lf"]
    /\ douts = <<>>
    /\ penv = [kind |-> "absent", maps |-> <<>>]
    /\ path_maps = <<>>
    /\ disk = <<>>
    /\ bak = <<>>
    /\ rules = <<>>
    /\ run = [ScanIdle EXCEPT !.opens = ClassLineMatches(dsrc, 1)]
    /\ nruns = 0
    /\ hist = <<>>

\* for m in _CLASS_LINE_RE.finditer(src): the next match, its loop set up
\* (lines 203-211), or the generator exhausted.
ScanMatch ==
    /\ run.pc = "match"
    /\ IF run.k < Len(run.opens)
       THEN run' = [run EXCEPT !.k = @ + 1, !.open_idx = run.opens[run.k + 1],
                               !.i = run.opens[run.k + 1] + 1, !.depth = 1, !.mode = "n",
                               !.tag = "", !.pc = "scan"]
       ELSE run' = [run EXCEPT !.pc = "declare"]
    /\ UNCHANGED <<disk, bak, rules, nruns, hist, dvars, jvars>>

ScanStep ==
    /\ run.pc = "scan"
    /\ run.i <= Len(dsrc) /\ run.depth > 0
    /\ run' = LoopBody(dsrc, run)
    /\ UNCHANGED <<disk, bak, rules, nruns, hist, dvars, jvars>>

\* The loop left: the region yielded if depth == 0 (lines 242-243).
ScanExit ==
    /\ run.pc = "scan"
    /\ ~(run.i <= Len(dsrc) /\ run.depth > 0)
    /\ run' = [run EXCEPT
                 !.pc = "match",
                 !.regions = IF run.depth = 0
                             THEN Append(@, [open_idx |-> run.open_idx, close_idx |-> run.i - 1])
                             ELSE @,
                 !.ends = Append(@, [open_idx |-> run.open_idx, depth |-> run.depth,
                                     mode |-> run.mode])]
    /\ UNCHANGED <<disk, bak, rules, nruns, hist, dvars, jvars>>

\* _fix_dynamic_properties_declare from line 280 on, with the regions the
\* generator gave.
ScanDeclare ==
    /\ run.pc = "declare"
    /\ LET r0 == [src |-> dsrc, changed |-> FALSE, notes |-> <<>>,
                  origin |-> [i \in 1..Len(dsrc) |-> i]]
       IN  douts' = <<IF run.regions = <<>> THEN r0
                      ELSE DeclareLoop(r0, run.regions, Len(run.regions), dstyle,
                                       InferPropDeclStyle(dsrc))>>
    /\ run' = [run EXCEPT !.pc = "done"]
    /\ UNCHANGED <<dsrc, dstyle, penv, path_maps, disk, bak, rules, nruns, hist, jvars>>

ScanNext == ScanMatch \/ ScanStep \/ ScanExit \/ ScanDeclare

\* The loops are run by one thread that keeps running.
SpecScan == ScanInit /\ [][ScanNext]_vars /\ WF_vars(ScanNext)

\* ------------------------------------ _iter_class_regions: termination
\* The matches whose loop ended with the brace depth above zero.
Unterminated == {e \in 1..Len(run.ends) : run.ends[e].depth > 0}

\* The input offsets a class's own text covers: from its opening brace to
\* the opening brace of the next class line, or to the end of the text.
OwnText(e) ==
    run.opens[e]..(IF e < Len(run.opens) THEN run.opens[e + 1] - 1 ELSE Len(dsrc))

InsertInit ==
    /\ JobsQuiet
    /\ FsQuiet
    /\ dsrc \in Bodies
    /\ dstyle = [indent |-> "sp4", eol |-> "lf"]
    /\ douts = <<>>

InsertCall ==
    /\ douts = <<>>
    /\ douts' = <<FindInsertPoint(dsrc)>>
    /\ UNCHANGED <<dsrc, dstyle, penv, path_maps, fvars, jvars>>

InsertNext == InsertCall

SpecInsert == InsertInit /\ [][InsertNext]_vars

\* ---------------------------------------- _find_insert_point: the claims
\* The offset just after the line lexeme i of the body lies on.
AfterLineOf(body, i) ==
    LET nls == {q \in (i + 1)..Len(body) : Kind(body[q]) = "nl"}
    IN  IF nls = {} THEN Len(body) ELSE MinOf(nls)

\* The property declarations, methods and doc blocks of a body: the lexemes
\* of these kinds outside strings, comments and heredocs.
BodyDecls(body) == {i \in RefNormalIdx(body, 1, "n", "") : Kind(body[i]) = "decl"}
BodyMethods(body) == {i \in RefNormalIdx(body, 1, "n", "") : Kind(body[i]) = "fn"}
BodyDocs(body) == {i \in RefNormalIdx(body, 1, "n", "") : Kind(body[i]) = "doc"}

\* The doc blocks that precede the first method (all of them when the body
\* has no method).
DocsBeforeFirstMethod(body) ==
    {i \in BodyDocs(body) : \A f \in BodyMethods(body) : i < f}

\* C23: _find_insert_point returns the offset just after the line of the
\* last property declaration of the body if it has one; otherwise the offset
\* just after the line on which the first doc block preceding the first
\* method ends, if there is such a block; otherwise 0; and the offset lies
\* in 0..len(body).
C23_InsertPointByPrecedence ==
    douts # <<>> =>
        /\ douts[1] \in 0..Len(dsrc)
        /\ douts[1] =
             IF BodyDecls(dsrc) # {} THEN AfterLineOf(dsrc, MaxOf(BodyDecls(dsrc)))
             ELSE IF DocsBeforeFirstMethod(dsrc) # {}
             THEN AfterLineOf(dsrc, MinOf(DocsBeforeFirstMethod(dsrc)))
             ELSE 0

\* C23 for the bodies in which every declaration and every method starts its
\* line and stands outside strings and comments.
C23_InsertPointWhenLinesStartItems ==
    (/\ douts # <<>>
     /\ \A i \in 1..Len(dsrc) :
          Kind(dsrc[i]) \in {"decl", "fn"} =>
              AtLineStart(dsrc, i) /\ i \in RefNormalIdx(dsrc, 1, "n", ""))
    => /\ douts[1] \in 0..Len(dsrc)
       /\ douts[1] =
            IF BodyDecls(dsrc) # {} THEN AfterLineOf(dsrc, MaxOf(BodyDecls(dsrc)))
            ELSE IF DocsBeforeFirstMethod(dsrc) # {}
            THEN AfterLineOf(dsrc, MinOf(DocsBeforeFirstMethod(dsrc)))
            ELSE 0

\* ------------------- _fix_dynamic_properties_declare, one region at a time
\* The reversed loop as it runs: run holds the regions, the number k of
\* regions not yet processed (the next one is regions[k]), the style of the
\* declarations and the text as edited so far with its history.
MaxClassSegs == 2

\* Bodies of the first class that hold the line of another class inside a
\* block comment or a heredoc.
HeaderInSpan ==
    { <<NL, BO, NL, Cls("C"), LB, This("baz"), RB, NL, BC, NL, This("x"), NL>>,
      <<NL, Tok("here", "", "T"), NL, Cls("C"), LB, This("baz"), RB, NL, Tok("tag", "", "T"),
        NL, FN, LB, This("x"), RB>> }

\* What follows the first class: nothing, a second class, or two more.
MoreClasses ==
    { <<>>,
      <<NL, Cls("B"), LB, This("foo"), RB, NL>>,
      <<NL, Cls("B"), LB, NL, Decl("var", "a"), NL, This("foo"), RB, NL,
        Cls("D"), LB, This("x"), RB>> }

ClassTexts ==
    {<<Cls("A"), LB>> \o b \o <<RB>> \o t :
        b \in HeaderInSpan \cup UNION {BodiesOf(k) : k \in 0..MaxClassSegs}, t \in MoreClasses}

RegionsIdle == [pc |-> "scan", regions |-> <<>>, k |-> 0, decl_style |-> "var",
                r |-> [src |-> <<>>, changed |-> FALSE, notes |-> <<>>, origin |-> <<>>]]

RegionsInit ==
    /\ JobsQuiet
    /\ dsrc \in ClassTexts
    /\ dstyle = [indent |-> "sp4", eol |-> "lf"]
    /\ douts = <<>>
    /\ penv = [kind |-> "absent", maps |-> <<>>]
    /\ path_maps = <<>>
    /\ disk = <<>>
    /\ bak = <<>>
    /\ rules = <<>>
    /\ run = RegionsIdle
    /\ nruns = 0
    /\ hist = <<>>

\* Lines 279-284: the regions listed, the style inferred, or the text
\* returned as it is when there is no region.
RegionsScan ==
    /\ run.pc = "scan"
    /\ LET regions == IterClassRegions(dsrc)
           r0 == [src |-> dsrc, changed |-> FALSE, notes |-> <<>>,
                  origin |-> [i \in 1..Len(dsrc) |-> i]]
       IN  IF regions = <<>>
           THEN /\ run' = [run EXCEPT !.pc = "done", !.r = r0]
                /\ douts' = <<r0>>
           ELSE /\ run' = [run EXCEPT !.pc = "loop", !.regions = regions, !.k = Len(regions),
                                      !.decl_style = InferPropDeclStyle(dsrc), !.r = r0]
                /\ douts' = douts
    /\ UNCHANGED <<dsrc, dstyle, penv, path_maps, disk, bak, rules, nruns, hist, jvars>>

\* One turn of "for reg in reversed(regions)" (lines 286-298).
RegionStep ==
    /\ run.pc = "loop"
    /\ run.k > 0
    /\ run' = [run EXCEPT !.r = DeclareInRegion(run.r, run.regions[run.k], dstyle, run.decl_style),
                          !.k = @ - 1]
    /\ UNCHANGED <<disk, bak, rules, nruns, hist, dvars, jvars>>

\* Line 299.
RegionsReturn ==
    /\ run.pc = "loop"
    /\ run.k = 0
    /\ run' = [run EXCEPT !.pc = "done"]
    /\ douts' = <<run.r>>
    /\ UNCHANGED <<dsrc, dstyle, penv, path_maps, disk, bak, rules, nruns, hist, jvars>>

RegionsNext == RegionsScan \/ RegionStep \/ RegionsReturn

SpecRegions == RegionsInit /\ [][RegionsNext]_vars

\* ------------------------------------------- the reversed loop: the claims
\* The place in the text r of the input's lexeme i.
PlaceOf(r, i) == CHOOSE j \in 1..Len(r.src) : r.origin[j] = i

\* The regions are disjoint: each ends before the next begins.
RegionsDisjoint(regions) ==
    \A g \in 1..Len(regions) : \A h \in (g + 1)..Len(regions) :
        regions[g].close_idx < regions[h].open_idx

\* The offsets of region reg still point at its two braces in the text r.
OffsetsValid(r, reg) == r.origin[reg.open_idx] = reg.open_idx /\ r.origin[reg.close_idx] = reg.close_idx

\* Where the step from the text r to the text q put its insertion.
InsertedAt(q, r) ==
    LET d == Len(q.src) - Len(r.src)
    IN  CHOOSE p \in 1..(Len(r.src) + 1) :
            /\ SubSeq(q.src, 1, p - 1) = SubSeq(r.src, 1, p - 1)
            /\ SubSeq(q.origin, 1, p - 1) = SubSeq(r.origin, 1, p - 1)
            /\ SubSeq(q.src, p + d, Len(q.src)) = SubSeq(r.src, p, Len(r.src))
            /\ SubSeq(q.origin, p + d, Len(q.src)) = SubSeq(r.origin, p, Len(r.src))

\* The lexemes the step from r to q inserted lie between the braces of reg.
InsertedInside(q, r, reg) ==
    Len(q.src) > Len(r.src) =>
        /\ PlaceOf(q, reg.open_idx) < InsertedAt(q, r)
        /\ InsertedAt(q, r) + (Len(q.src) - Len(r.src)) - 1 < PlaceOf(q, reg.close_idx)

\* C24: the yielded regions never overlap or nest; while the loop runs, the
\* offsets of every region not yet processed point at that region's own
\* braces in the text as edited so far; and the declarations a turn inserts
\* lie between the braces of the region it processes.
C24_OffsetsStayValid ==
    /\ [](run.pc = "loop" =>
            /\ RegionsDisjoint(run.regions)
            /\ \A g \in 1..run.k : OffsetsValid(run.r, run.regions[g]))
    /\ [][(run.pc = "loop" /\ run.k > 0)
            => InsertedInside(run'.r, run.r, run.regions[run.k])]_vars

\* C24 for the texts whose regions are disjoint.
C24_OffsetsValidWhenDisjoint ==
    /\ []((run.pc = "loop" /\ RegionsDisjoint(run.regions)) =>
            \A g \in 1..run.k : OffsetsValid(run.r, run.regions[g]))
    /\ [][(run.pc = "loop" /\ run.k > 0 /\ RegionsDisjoint(run.regions))
            => InsertedInside(run'.r, run.r, run.regions[run.k])]_vars

\* C24, the disjointness alone: the yielded regions never overlap or nest.
C24_RegionsNeverNest == run.pc = "loop" => RegionsDisjoint(run.regions)

\* C24: while the regions are processed from last to first, the open and
\* close offsets of every region not yet processed point at that region's own
\* braces in the text as edited so far, so that its body is read with its
\* true extent.
C24_OffsetsOfPendingRegions ==
    run.pc = "loop" => \A g \in 1..run.k : OffsetsValid(run.r, run.regions[g])

\* ------------------------------------ fix_selected: concurrent invocations
\* Two requests served at once (app.run serves each request on a thread of
\* its own; job_fix calls fix_selected outside any lock, app.py:603). Each
\* invocation is given the one file FileA, under either of its spellings.
\* The test of the backup and the copy are two steps here: between
\* os.path.exists and shutil.copy2 (fixer.py:416) another thread can run.
ConcItems == { <<<<DOT, SEP, "a.php">>>>,
               <<<<SEP, "docker", SEP, "sub", SEP, DOT, DOT, SEP, "a.php">>>> }

\* if not os.path.exists(backup)
BackupCheck(p) ==
    LET r == run[p]
    IN  /\ r.pc = "backup"
        /\ run' = [run EXCEPT ![p] = [r EXCEPT !.pc = IF bak[r.abs_path] # NoFile
                                                     THEN "compute" ELSE "copy"]]
        /\ UNCHANGED <<disk, bak, rules, nruns, hist, dvars, jvars>>

\* shutil.copy2(abs_path, backup) inside try/except-pass: the file as it is
\* now is copied, or the copy raises and nothing is written.
BackupCopy(p) ==
    LET r == run[p]
        f == r.abs_path
    IN  /\ r.pc = "copy"
        /\ run' = [run EXCEPT ![p] = [r EXCEPT !.pc = "compute"]]
        /\ \/ /\ Content(disk, f) # NoFile
              /\ bak' = [bak EXCEPT ![f] = disk[f]]
              /\ UNCHANGED hist
           \/ /\ UNCHANGED bak
              /\ hist' = [hist EXCEPT !.bak_failed = @ \cup {f}]
        /\ UNCHANGED <<disk, rules, nruns, dvars, jvars>>

ConcNext ==
    \E p \in Workers :
        \/ \E its \in ConcItems, dyn \in DynModes : FixSelectedCall(p, its, dyn)
        \/ NextItem(p)
        \/ ReadFile(p)
        \/ BackupCheck(p)
        \/ BackupCopy(p)
        \/ Compute(p)
        \/ WriteBack(p)

SpecConc == Init /\ [][ConcNext]_vars

\* Both invocations have returned.
BothReturned == nruns = 2 /\ \A p \in Workers : run[p].pc = "idle" /\ run[p].items # <<>>

\* C25: when two invocations of fix_selected have run concurrently on FileA,
\* which had no backup, and no copy raised, the backup of FileA, once made,
\* holds the content FileA had before either invocation wrote to it.
C25_BackupHoldsOriginalUnderRaces ==
    (BothReturned /\ hist.bak_failed = {} /\ bak[FileA] # NoFile)
        => bak[FileA] = hist.disk0[FileA]

\* ------------------------------------------------ agents.py: Fixer.try_fix
\* One call of try_fix, a step for each call it makes of _apply_key_fix_to_file
\* or _apply_rule_to_file. Its inputs are given by what the code takes from
\* them: the key found in error_snippet (NoKey when the pattern does not
\* match), file_hint (<<>> for None), the file _extract_stack_file finds in
\* the page (<<>> for None), the rules whose "match" occurs in the snippet,
\* and the order in which os.walk lists the files.
MaxTries == 2

NoKey == "<no key>"

\* patterns.yaml as the Fixer loads it: absent, the four rules above, or a
\* list that starts with a rule that has no "id".
TryFixRuleLists ==
    { <<>>,
      LegacyRules,
      <<Rule(NoId, <<Code("old")>>, <<Code("mid")>>, FALSE),
        Rule("r2", <<Code("mid")>>, <<Code("new")>>, FALSE)>> }

\* _iter_php_files: the files under the root that end in .php, .phtml or .tpl.
WalkOrders == { <<FileA, FileB>>, <<FileB, FileA>> }

\* [r for r in self.rules if r.get("match") and r["match"].lower() in snippet],
\* for the set matched of the positions of those rules; k is the position tried.
RECURSIVE Candidates(_, _, _)
Candidates(rs, matched, k) ==
    IF k > Len(rs) THEN <<>>
    ELSE (IF k \in matched THEN <<rs[k]>> ELSE <<>>) \o Candidates(rs, matched, k + 1)

TryFixIdle ==
    [pc |-> "idle", key |-> NoKey, file_hint |-> <<>>, stack |-> <<>>, matched |-> {},
     walk |-> <<>>, cands |-> <<>>, order |-> <<>>, ci |-> 0, fi |-> 0, pre |-> <<>>,
     ok |-> FALSE, id |-> "", why |-> "", last |-> ""]

TryFixInit ==
    /\ JobsQuiet
    /\ disk \in { [f \in LegacyPaths |-> IF f = FileGone THEN NoFile ELSE IF f = FileA THEN a ELSE c] :
                    a \in LegacyContents, c \in LegacyContents }
    /\ bak = [f \in LegacyPaths |-> NoFile]
    /\ rules \in TryFixRuleLists
    /\ run = TryFixIdle
    /\ nruns = 0
    /\ hist = [disk0 |-> disk, bak_failed |-> {}]
    /\ DeclQuiet
    /\ PathsDeployed

\* try_fix(page_html_lower, error_snippet, file_hint) is entered (line 246).
TF_Call(key, file_hint, stack, matched, walk) ==
    /\ run.pc \in {"idle", "done"}
    /\ nruns < MaxTries
    /\ stack # <<>> => Content(disk, stack) # NoFile
    /\ nruns' = nruns + 1
    /\ run' = [TryFixIdle EXCEPT !.pc = "key", !.key = key, !.file_hint = file_hint,
                                 !.stack = stack, !.matched = matched, !.walk = walk,
                                 !.pre = disk]
    /\ UNCHANGED <<disk, bak, rules, hist, dvars, jvars>>

\* Step 1 (lines 252-258): the key-targeted fix, returned when it succeeds.
TF_Key ==
    LET target == IF run.file_hint # <<>> THEN run.file_hint ELSE run.stack
    IN  /\ run.pc = "key"
        /\ IF run.key = NoKey \/ target = <<>>
           THEN /\ run' = [run EXCEPT !.pc = "rules"]
                /\ UNCHANGED <<disk, bak>>
           ELSE \E lint \in LintOutcomes :
                  LET out == ApplyKeyFixToFile(disk, bak, target, run.key, lint)
                  IN  /\ disk' = out.disk
                      /\ bak' = out.bak
                      /\ run' = IF out.ok
                                THEN [run EXCEPT !.pc = "done", !.ok = TRUE, !.id = "coalesce",
                                                 !.why = out.why, !.last = out.why]
                                ELSE [run EXCEPT !.pc = "rules", !.last = out.why]
        /\ UNCHANGED <<rules, nruns, hist, dvars, jvars>>

\* Lines 261-272: no rules, or the candidates and the targets.
TF_Rules ==
    LET picked == Candidates(rules, run.matched, 1)
        targets == IF run.file_hint # <<>> /\ Content(disk, run.file_hint) # NoFile
                   THEN <<run.file_hint>>
                   ELSE IF run.stack # <<>> THEN <<run.stack>> ELSE <<>>
    IN  /\ run.pc = "rules"
        /\ run' = IF rules = <<>>
                  THEN [run EXCEPT !.pc = "done", !.ok = FALSE, !.why = "no rules"]
                  ELSE [run EXCEPT !.pc = "loop",
                                   !.cands = IF picked = <<>> THEN rules ELSE picked,
                                   !.order = targets \o run.walk, !.ci = 1, !.fi = 1]
        /\ UNCHANGED <<disk, bak, rules, nruns, hist, dvars, jvars>>

\* Lines 274-282: what follows a call of _apply_rule_to_file: the return when
\* it succeeded, else the next file, or the next rule after the last file.
TF_Advance(r, out) ==
    IF out.ok
    THEN [r EXCEPT !.pc = "done", !.ok = TRUE, !.id = r.cands[r.ci].id, !.why = out.why,
                   !.last = out.why]
    ELSE IF r.fi < Len(r.order) THEN [r EXCEPT !.fi = @ + 1, !.last = out.why]
    ELSE [r EXCEPT !.ci = @ + 1, !.fi = 1, !.last = out.why]

\* One call of _apply_rule_to_file in the loops of lines 274-282: the rule
\* on the targets first, then on every file of the walk.
TF_Apply ==
    /\ run.pc = "loop"
    /\ run.ci <= Len(run.cands)
    /\ \E lint \in LintOutcomes :
         LET out == ApplyRuleToFile(disk, bak, run.order[run.fi], run.cands[run.ci], lint)
         IN  /\ disk' = out.disk
             /\ bak' = out.bak
             /\ run' = TF_Advance(run, out)
    /\ UNCHANGED <<rules, nruns, hist, dvars, jvars>>

\* Line 283: no rule changed a file.
TF_NoEdits ==
    /\ run.pc = "loop"
    /\ run.ci > Len(run.cands)
    /\ run' = [run EXCEPT !.pc = "done", !.ok = FALSE, !.why = "no matching edits"]
    /\ UNCHANGED <<disk, bak, rules, nruns, hist, dvars, jvars>>

TryFixNext ==
    \/ \E key \in Keys \cup {NoKey}, file_hint \in {FileA, FileC, FileGone, <<>>},
          stack \in {FileB, <<>>}, matched \in SUBSET (1..2), walk \in WalkOrders :
         TF_Call(key, file_hint, stack, matched, walk)
    \/ TF_Key
    \/ TF_Rules
    \/ TF_Apply
    \/ TF_NoEdits

SpecTryFix == TryFixInit /\ [][TryFixNext]_vars

\* ----------------------------------------------------- try_fix: the claims
\* The files the call has left with another content than it found.
ChangedByCall == {f \in LegacyPaths : disk[f] # run.pre[f]}

\* C26: one call of try_fix leaves at most one file with changed content:
\* when it has returned, at most one file differs from what the call found,
\* and none does when it returned without a fix; a step that leaves a file
\* changed is the call's last (it returns the fix at once), and a step whose
\* lint failed leaves every file as it was before the step.
C26_AtMostOneFileChanged ==
    /\ [](run.pc = "done" =>
            /\ Cardinality(ChangedByCall) <= 1
            /\ ~run.ok => ChangedByCall = {})
    /\ [][(run.pc \in {"key", "loop"} /\ disk' # disk) => (run'.pc = "done" /\ run'.ok)]_vars
    /\ [][(run.pc \in {"key", "loop"} /\ run'.last = "lint failed; reverted") => disk' = disk]_vars

\* C26, the count alone: a call that has returned has changed one file at most.
C26_OneFileAtMostOnReturn ==
    run.pc = "done" => Cardinality(ChangedByCall) <= 1

\* Every rule of the list has an "id".
RulesHaveIds == \A k \in 1..Len(rules) : rules[k].id # NoId

\* C26 for rule lists in which every rule has an "id".
C26_OneFileWhenRulesHaveIds ==
    /\ []((RulesHaveIds /\ run.pc = "done") =>
            /\ Cardinality(ChangedByCall) <= 1
            /\ ~run.ok => ChangedByCall = {})
    /\ [][(RulesHaveIds /\ run.pc \in {"key", "loop"} /\ disk' # disk)
            => (run'.pc = "done" /\ run'.ok)]_vars
    /\ [][(RulesHaveIds /\ run.pc \in {"key", "loop"} /\ run'.last = "lint failed; reverted")
            => disk' = disk]_vars

\* ------------------------------- app.py: the targets and the files job_fix fixes
\* The paths of one job from the page to the fix: run_test_job remaps each
\* path found in a page and stores it as a key of the job's targets;
\* job_fix keeps the items whose "file" is a key and hands them to
\* fix_selected, which remaps each "file" again before it opens it.
MaxTargets == 2

\* The paths extract_php_targets finds in the pages.
PagePaths == PathInputs \ {<<>>}

\* "file" values of a request that a page never showed.
StrayFiles == { <<SEP, "proj", SEP, "c.txt">>, <<"b.tpl">> }

ConfirmIdle == [pc |-> "collect", targets |-> {}, items |-> <<>>, filtered |-> <<>>,
                resolved |-> <<>>, resp |-> 0]

ConfirmInit ==
    /\ JobsQuiet
    /\ disk = <<>>
    /\ bak = <<>>
    /\ rules = <<>>
    /\ nruns = 0
    /\ hist = <<>>
    /\ dsrc = <<>>
    /\ dstyle = [indent |-> "sp4", eol |-> "lf"]
    /\ douts = <<>>
    /\ penv \in Envs
    /\ path_maps = LoadPathMaps(penv)
    /\ run = ConfirmIdle

\* run_test_job, lines 402-408: the key under which a path of the page is
\* stored in the job's targets.
CollectTarget(php_path) ==
    /\ run.pc = "collect"
    /\ Cardinality(run.targets) < MaxTargets
    /\ run' = [run EXCEPT !.targets = @ \cup {AbsPath(php_path)}]
    /\ UNCHANGED <<disk, bak, rules, nruns, hist, dvars, jvars>>

\* [it for it in items if it.get("file") in allowed] (app.py:598).
RECURSIVE FilterAllowed(_, _)
FilterAllowed(items, allowed) ==
    IF items = <<>> THEN <<>>
    ELSE (IF Head(items) \in allowed THEN <<Head(items)>> ELSE <<>>)
         \o FilterAllowed(Tail(items), allowed)

\* The abs_path fix_selected computes for each item (fixer.py:397-401); the
\* files it reads, backs up and writes are these.
ResolvedPaths(items) == [k \in 1..Len(items) |-> AbsPath(items[k])]

\* job_fix, lines 597-603: the filter, the 400 reply when nothing is left,
\* else fix_selected on the items kept.
FixRequest(items) ==
    LET filtered == FilterAllowed(items, run.targets)
    IN  /\ run.pc = "collect"
        /\ run' = [run EXCEPT !.pc = "fixed", !.items = items, !.filtered = filtered,
                              !.resolved = IF filtered = <<>> THEN <<>>
                                           ELSE ResolvedPaths(filtered),
                              !.resp = IF filtered = <<>> THEN 400 ELSE 200]
        /\ UNCHANGED <<disk, bak, rules, nruns, hist, dvars, jvars>>

ConfirmNext ==
    \/ \E php_path \in PagePaths : CollectTarget(php_path)
    \/ \E n \in 1..MaxItems : \E items \in [1..n -> run.targets \cup StrayFiles] :
         FixRequest(items)

SpecConfirm == ConfirmInit /\ [][ConfirmNext]_vars

\* ------------------------------------------------- job_fix paths: the claims
\* C27: every file a fix request reads, backs up or writes is a key of the
\* job's targets: the items whose file is no key are dropped, and the path
\* fix_selected resolves for an item that was kept is the path that was
\* checked against the targets.
C27_FixedFilesAreTargets ==
    run.pc = "fixed" =>
        /\ \A k \in 1..Len(run.filtered) : run.filtered[k] \in run.targets
        /\ \A k \in 1..Len(run.items) :
             run.items[k] \notin run.targets =>
                \A j \in 1..Len(run.filtered) : run.filtered[j] # run.items[k]
        /\ \A k \in 1..Len(run.resolved) :
             /\ run.resolved[k] = run.filtered[k]
             /\ run.resolved[k] \in run.targets

\* No key of the targets is moved by a second remap_host_path.
KeysStayUnderRemap == \A t \in run.targets : AbsPath(t) = t

\* C27 for the jobs whose keys a second remap leaves where they are.
C27_FixedFilesAreTargetsWhenKeysStay ==
    (run.pc = "fixed" /\ KeysStayUnderRemap) =>
        /\ \A k \in 1..Len(run.filtered) : run.filtered[k] \in run.targets
        /\ \A k \in 1..Len(run.resolved) :
             /\ run.resolved[k] = run.filtered[k]
             /\ run.resolved[k] \in run.targets

\* ------------------------------------------- the job service: the life of a job
Job == JOBS[JobId]

\* The moves of status run_test and run_test_job make.
StatusMoves ==
    { <<"none", "queued">>, <<"queued", "running">>, <<"running", "done">>,
      <<"queued", "error">>, <<"running", "error">> }

\* status changes by the moves above only, so that done and error are never
\* left; progress never decreases and never exceeds total.
StatusAndProgressMove ==
    /\ [][Job'.status # Job.status => <<Job.status, Job'.status>> \in StatusMoves]_vars
    /\ [][Job'.progress >= Job.progress]_vars
    /\ [](Job.progress <= Job.total)

\* C28: a job's status moves only queued -> running -> done or
\* queued/running -> error and never leaves done or error; progress never
\* decreases and never exceeds total; and in every state where status is
\* done, progress equals total and report_path is set.
C28_JobLifecycle ==
    /\ StatusAndProgressMove
    /\ [](Job.status = "done" => (Job.progress = Job.total /\ Job.report_path))

\* C28, its last part: a done job has all its progress and its report.
C28_DoneHasReport ==
    Job.status = "done" => (Job.progress = Job.total /\ Job.report_path)

\* C28, what a request meets: no /download reads a done job without a report.
C28_DoneSeenWithReport ==
    [][(thr.h.pc = "dl_read" /\ thr'.h.pc = "idle" /\ thr.h.has /\ Job.status = "done")
          => thr'.h.resp = "ok"]_vars

\* C28 for the states in which the worker is outside its
\* "with JOBS_LOCK:" blocks.
C28_JobLifecycleOutsideBlocks ==
    /\ StatusAndProgressMove
    /\ []((Job.status = "done" /\ JOBS_LOCK # "w") =>
            (Job.progress = Job.total /\ Job.report_path))

\* ---------------------------------------------- the job service: the fixes
\* C29: after a fix request has returned its results, the job's fixes list
\* ends with those results, in order, after the records of earlier requests;
\* for the first request of a job as for later ones.
C29_FixesHoldReturnedResults ==
    (thr.h.pc = "idle" /\ thr.h.resp = "ok" /\ thr.h.results # <<>>) =>
        /\ Len(Job.fixes) >= Len(thr.h.results)
        /\ SubSeq(Job.fixes, Len(Job.fixes) - Len(thr.h.results) + 1, Len(Job.fixes))
             = thr.h.results

\* C29, as a step: the statement that records the results appends them to
\* the list the job had.
C29_ExtendAppends ==
    [][(thr.h.pc = "fx_extend" /\ thr'.h.pc = "fx_flag")
          => Job'.fixes = Job.fixes \o thr.h.results]_vars

\* ------------------------------------------- the Declarator: method calls
\* The names the text uses as `$this->name` with no call: anywhere in the
\* text, and as `$this->name(`.
UsedAsProperty(src) == {src[i][3] : i \in {j \in 1..Len(src) : Kind(src[j]) = "this"}}
UsedAsCall(src) == {src[i][3] : i \in {j \in 1..Len(src) : Kind(src[j]) = "call"}}

\* C30: the Declarator inserts a declaration for a name only when the name
\* is used as an instance property: a name that occurs only as a method
\* call `$this->name(...)` is never among the inserted declarations.
C30_NoDeclarationForMethodCalls ==
    Len(douts) >= 1 =>
        \A n \in InsertedNames(douts[1]) : ~(n \in UsedAsCall(dsrc) /\ n \notin UsedAsProperty(dsrc))

\* C30, what does hold: every inserted name occurs in the text after
\* `$this->`, as a property or as the name of a method called.
C30_InsertedNamesAreUsed ==
    Len(douts) >= 1 => InsertedNames(douts[1]) \subseteq UsedAsProperty(dsrc) \cup UsedAsCall(dsrc)


====
